---- MODULE Spec2Model ----
(***************************************************************************)
(* Model of the MCP servers of ais-mcpserver: the rules server             *)
(* (src/src/servers/rules/index.ts), the memory server                     *)
(* (src/unnamed/part_002) and the git runner (src/unnamed/part_001).       *)
(*                                                                         *)
(* Strings the code inspects (categories, ids, queries, tags, titles and   *)
(* bodies handed to the scorer) are sequences of one-character strings, so *)
(* that substring(), toLowerCase(), includes(), padStart() and the RegExp  *)
(* match are computed and not assumed.  Text that a handler only copies    *)
(* (the title, description, content and examples of a rule in the CRUD     *)
(* handlers) is an opaque string literal in the CRUD specification.  An    *)
(* argument or property that is undefined is an absent key.                *)
(*                                                                         *)
(* Specifications:                                                         *)
(*   SpecRules      the rules server serving create_rule and delete_rule   *)
(*                  after its initial load, one request at a time          *)
(*   SpecRulesEdit  the same with update_rule, at most MaxCalls changes    *)
(*   SpecRulesAll   the rules server serving its create, update, delete,   *)
(*                  get, category and import tools, at most MaxCalls       *)
(*                  changes                                                *)
(*   SpecSearch     search_rules / search_memories applied once to every   *)
(*                  store, query, filter set and limit of the bounded      *)
(*                  inputs                                                 *)
(*   SpecMem        the memory server serving its five tools after its     *)
(*                  initial load, one request at a time                    *)
(*   SpecRoundTrip  a store is exported once, a server is started on an    *)
(*                  empty directory and the export file is imported        *)
(*   SpecServers    any of the three servers serving its tool handlers     *)
(*   SpecMint       create_rule and delete_rule with category names of     *)
(*                  fewer than three characters and of mixed case          *)
(*   SpecLoad       loadRules() / loadMemories() alone, one step per       *)
(*                  await, on every storage directory of the bounded files *)
(*   SpecStartup    the load with create_rule, delete_rule and             *)
(*                  store_experience served between its awaits             *)
(*   SpecOverlap    create_rule calls served while earlier ones await      *)
(*                  their saveRules()                                      *)
(*   SpecRunner     the git runner's tools and its interval timer          *)
(***************************************************************************)
EXTENDS Integers, Sequences, FiniteSets, TLC

VARIABLES
    server,         \* which server this process is: "rules", "memory" or "git"
    rules,          \* RulesMCPServer.rules: Rule[]
    categories,     \* RulesMCPServer.categories: RuleCategory[]
    rulesFile,      \* <rulesPath>/rules.json
    categoriesFile, \* <rulesPath>/categories.json
    memories,       \* MemoryMCPServer.memories: MemoryEntry[]
    memoriesFile,   \* <memoryPath>/memories.json
    exportFile,     \* the file the last export_memories / export_rules wrote
    now,            \* the clock read by new Date() / Date.now()
    response,       \* what the last CallTool request returned
    issued,         \* history: the [id, category] minted by create_rule, oldest first
    inserted,       \* history: the memory entries in the order they were pushed
    request,        \* the last CallTool request: its tool name and arguments
    onlyCreates,    \* history: every call so far was a create_rule
    deletes,        \* history: the number of delete_rule calls so far
    calls,          \* history: the number of calls that changed the rules or categories
    exportedFrom,   \* history: the store and the arguments of the last export
    runner,         \* GitRunnerMCPServer.state and its interval timer
    loading,        \* the loadRules() / loadMemories() the constructor started
    saving          \* the create_rule calls that are awaiting their saveRules()

vars == <<server, rules, categories, rulesFile, categoriesFile, memories, memoriesFile,
          exportFile,
          now, response, issued, inserted, request, onlyCreates, deletes,
          calls, exportedFrom, runner, loading, saving>>

----------------------------------------------------------------------------
(* Bounds of the model *)

MaxCreates == 3     \* create_rule calls in one behaviour
MaxDeletes == 1     \* delete_rule calls in one behaviour
MaxCalls == 2       \* calls that change the rules or the categories in one behaviour
MaxAutoCommits == 2 \* commits made by the git runner's timer in one behaviour
MaxClock == 1       \* the clock stops advancing here
MaxStore == 3       \* records in a store the search is applied to
MaxMemories == 2    \* entries the memory store grows to

----------------------------------------------------------------------------
(* JavaScript strings as sequences of characters *)

Min(a, b) == IF a < b THEN a ELSE b
Max(a, b) == IF a > b THEN a ELSE b

UpperCase == <<"A", "B", "C", "D", "E", "F", "G", "H", "I", "J", "K", "L", "M",
               "N", "O", "P", "Q", "R", "S", "T", "U", "V", "W", "X", "Y", "Z">>
LowerCase == <<"a", "b", "c", "d", "e", "f", "g", "h", "i", "j", "k", "l", "m",
               "n", "o", "p", "q", "r", "s", "t", "u", "v", "w", "x", "y", "z">>

\* The small letter of each capital letter
LowerOf ==
    [c \in {UpperCase[k] : k \in 1..26} |->
        LowerCase[CHOOSE k \in 1..26 : UpperCase[k] = c]]

\* String.prototype.toLowerCase on one character: a capital letter becomes its
\* small letter, every other character of the model stays
LowerChar(c) == IF c \in DOMAIN LowerOf THEN LowerOf[c] ELSE c

toLowerCase(s) == [i \in 1..Len(s) |-> LowerChar(s[i])]

\* s.substring(0, n)
substring0(s, n) == SubSeq(s, 1, Min(n, Len(s)))

\* s.includes(sub): sub occurs in s as a contiguous run (the empty string always)
includes(s, sub) ==
    \E i \in 0..(Len(s) - Len(sub)) : SubSeq(s, i + 1, i + Len(sub)) = sub

\* Array.prototype.includes / some(x => x === e)
Elems(seq) == {seq[i] : i \in 1..Len(seq)}

DigitChar(d) == <<"0", "1", "2", "3", "4", "5", "6", "7", "8", "9">>[d + 1]

\* Number.prototype.toString() of a natural number
RECURSIVE NumToString(_)
NumToString(n) ==
    IF n < 10 THEN <<DigitChar(n)>>
    ELSE NumToString(n \div 10) \o <<DigitChar(n % 10)>>

\* s.padStart(width, "0")
RECURSIVE padStart0(_, _)
padStart0(s, width) ==
    IF Len(s) >= width THEN s ELSE padStart0(<<"0">> \o s, width)

\* Array.prototype.filter
FilterSeq(seq, P(_)) == SelectSeq(seq, P)

\* findIndex: the first index whose element satisfies P, 0 when there is none
FindIndex(seq, P(_)) ==
    IF \E i \in 1..Len(seq) : P(seq[i])
    THEN CHOOSE i \in 1..Len(seq) : P(seq[i]) /\ \A j \in 1..(i - 1) : ~P(seq[j])
    ELSE 0

\* splice(i, 1)
RemoveAt(seq, i) == SubSeq(seq, 1, i - 1) \o SubSeq(seq, i + 1, Len(seq))

\* An argument the caller supplied (a key of the arguments object)
Has(args, key) == key \in DOMAIN args

\* if (category): supplied and not the empty string
Truthy(args, key) == Has(args, key) /\ args[key] # <<>>

\* A field the caller may leave out: the empty arguments object, or the key
NoArgs == [k \in {} |-> k]
Opt(key, values) == {NoArgs} \cup {key :> v : v \in values}

\* The properties of args among keys.  A property holding undefined is a
\* property that is absent: JSON.stringify writes neither.
Pick(args, keys) == [k \in keys \cap DOMAIN args |-> args[k]]

\* const { format = "json" } = args
formatOf(args) == IF Has(args, "format") THEN args.format ELSE "json"

\* args[key] || fallback, for a string or an array and a fallback that is the
\* empty one: an empty string gives the fallback, which is the empty string
ArgOr(args, key, fallback) == IF Has(args, key) THEN args[key] ELSE fallback

----------------------------------------------------------------------------
(* Literals of the rules server *)

S_git == <<"g", "i", "t">>
S_Git == <<"G", "i", "t">>
S_gitlab == <<"g", "i", "t", "l", "a", "b">>
S_coding == <<"c", "o", "d", "i", "n", "g">>
S_security == <<"s", "e", "c", "u", "r", "i", "t", "y">>
S_testing == <<"t", "e", "s", "t", "i", "n", "g">>
S_documentation == <<"d", "o", "c", "u", "m", "e", "n", "t", "a", "t", "i", "o", "n">>

S_dash001 == <<"-", "0", "0", "1">>
S_dash002 == <<"-", "0", "0", "2">>

\* The short strings of the stores and requests of the search and the export
Sempty == <<>>
Sa == <<"a">>
Sb == <<"b">>
SA == <<"A">>
Sab == <<"a", "b">>
SAb == <<"A", "b">>
SAB == <<"A", "B">>
Saba == <<"a", "b", "a">>
Sdot == <<".">>
Sparen == <<"(">>

\* `Rules for ${name}`
RulesFor(name) == <<"R", "u", "l", "e", "s", " ", "f", "o", "r", " ">> \o name

defaultCategories ==
    << [name |-> S_coding, description |-> "Programming and development rules", rules |-> <<>>],
       [name |-> S_git, description |-> "Git workflow and versioning rules", rules |-> <<>>],
       [name |-> S_security, description |-> "Security best practices and rules", rules |-> <<>>],
       [name |-> S_testing, description |-> "Testing methodologies and practices", rules |-> <<>>],
       [name |-> S_documentation, description |-> "Documentation standards and guidelines", rules |-> <<>>] >>

defaultRules(t) ==
    << [id |-> S_coding \o S_dash001, title |-> "Function Naming Convention",
        category |-> S_coding,
        description |-> "Use descriptive and consistent function names",
        content |-> "Functions should have clear, descriptive names that indicate their purpose. Use camelCase for JavaScript/TypeScript, snake_case for Python, and follow language-specific conventions.",
        tags |-> <<"naming", "functions", "conventions">>,
        examples |-> <<"getUserData() instead of getData()",
                       "calculateTotalPrice() instead of calc()",
                       "validateEmailAddress() instead of check()">>,
        relatedRules |-> <<S_coding \o S_dash002>>,
        timestamp |-> t, version |-> "1.0.0"],
       [id |-> S_git \o S_dash001, title |-> "Commit Message Format",
        category |-> S_git,
        description |-> "Use conventional commit messages",
        content |-> "Follow the format: type(scope): description\n\nTypes: feat, fix, docs, style, refactor, test, chore\nScope: optional, indicates the area of change\nDescription: brief summary in imperative mood",
        tags |-> <<"git", "commits", "messages">>,
        examples |-> <<"feat(auth): add user authentication",
                       "fix(api): resolve timeout issue",
                       "docs(readme): update installation guide">>,
        relatedRules |-> <<S_git \o S_dash002>>,
        timestamp |-> t, version |-> "1.0.0"],
       [id |-> S_security \o S_dash001, title |-> "Environment Variables",
        category |-> S_security,
        description |-> "Never commit secrets to version control",
        content |-> "Store sensitive information like API keys, passwords, and tokens in environment variables. Use .env files for local development and ensure they're in .gitignore.",
        tags |-> <<"security", "secrets", "environment">>,
        examples |-> <<"Use process.env.API_KEY instead of hardcoding",
                       "Add .env to .gitignore",
                       "Use different .env files for different environments">>,
        relatedRules |-> <<S_security \o S_dash002>>,
        timestamp |-> t, version |-> "1.0.0"] >>

\* The ids of the rules of a category, in store order
IdsOfCategory(rs, name) ==
    LET hit == FilterSeq(rs, LAMBDA r : r.category = name)
    IN  [i \in 1..Len(hit) |-> hit[i].id]

\* initializeDefaultRules: the seeded categories, each with its rule references
seededCategories(rs) ==
    [i \in 1..Len(defaultCategories) |->
        [defaultCategories[i] EXCEPT !.rules = IdsOfCategory(rs, defaultCategories[i].name)]]

----------------------------------------------------------------------------
(* The rules server: id allocation and the CRUD handlers *)

\* The id numbered by the size of the store
generateId_countsStore(rs, category) ==
    toLowerCase(substring0(category, 3)) \o <<"-">> \o padStart0(NumToString(Len(rs) + 1), 3)

\* generateId(category)
generateId(rs, category) ==
    LET prefix == toLowerCase(substring0(category, 3))
        count == Len(FilterSeq(rs, LAMBDA r : r.category = category)) + 1
    IN  prefix \o <<"-">> \o padStart0(NumToString(count), 3)

\* A file: absent, or holding the JSON text of a value.  JSON.stringify followed
\* by JSON.parse gives back an array of records of strings and string arrays
\* unchanged, so the text is kept as the value it encodes.
NoFile == [exists |-> FALSE]
\* The initial load has completed; the storage directory exists
Loaded == [pc |-> "done", dir |-> TRUE]

\* No create_rule is awaiting its save
NoSaves == <<>>

NoExport == [exists |-> FALSE]

\* GitRunnerMCPServer.state and intervalId as the class initialises them;
\* lastCommit is <<>> for null and <<t>> for a date, and intervalId is 0 for
\* null and the timer's number otherwise.  timers are the interval timers
\* setInterval has created and clearInterval has not cleared, tick is the
\* position of the timer callback that is running, and autoCommits counts the
\* commits the callback has made (history).
NoRunner == [isRunning |-> FALSE, autoCommit |-> FALSE, commitInterval |-> 30,
             lastCommit |-> <<>>, intervalId |-> 0, timers |-> {}, tick |-> "idle",
             autoCommits |-> 0]
FileOf(v) == [exists |-> TRUE, data |-> v]

\* The ways saveRules() can end: both files written; the mkdir or the first
\* writeFile rejects (nothing written); the second writeFile rejects.
SaveOutcomes == {"ok", "fail_rules", "fail_categories"}

\* saveRules(): the files after the call, for the in-memory state (rs, cs)
saveRulesFile(outcome, rs) ==
    IF outcome = "fail_rules" THEN rulesFile ELSE FileOf(rs)

\* saveRules() that never reaches the second writeFile
saveCategoriesFile_neverWritten(outcome, cs) == categoriesFile

saveCategoriesFile(outcome, cs) ==
    IF outcome = "ok" THEN FileOf(cs) ELSE categoriesFile

\* The catch block that lets the failure leave the request handler
Err_uncaught(tool, message) == [kind |-> "uncaught", tool |-> tool, payload |-> message]

\* The response the CallTool handler returns: the handler's result, or the
\* catch block's "Error: <message>"
Ok(tool, payload) == [kind |-> "ok", tool |-> tool, payload |-> payload]
Err(tool, message) == [kind |-> "error", tool |-> tool, payload |-> message]

\* The handler that reports success whatever saveRules() did
saveResponse_swallowsFailure(tool, payload, outcome) == Ok(tool, payload)

\* What a handler that ends with `await this.saveRules()` answers: its report,
\* or the error saveRules() threw
saveResponse(tool, payload, outcome) ==
    IF outcome = "ok" THEN Ok(tool, payload) ELSE Err(tool, "Failed to save")

\* The category entry the handler pushes to: the index of the entry named
\* `name`, after a new entry was appended when there was none
ensureCategory(cs, name) ==
    IF \E i \in 1..Len(cs) : cs[i].name = name
    THEN cs
    ELSE Append(cs, [name |-> name, description |-> RulesFor(name), rules |-> <<>>])

pushRuleId(cs, name, id) ==
    LET k == FindIndex(cs, LAMBDA c : c.name = name)
    IN  [cs EXCEPT ![k].rules = Append(@, id)]

Tick == {t \in now..(now + 1) : t <= MaxClock}

\* The lookup that answers the first rule for an id that is not in the store
findIndexById_firstWhenMissing(rs, id) ==
    IF \E i \in 1..Len(rs) : rs[i].id = id THEN FindIndex(rs, LAMBDA r : r.id = id)
    ELSE Min(1, Len(rs))

\* The position of the first rule with this id, 0 when there is none
findIndexById(rs, id) == FindIndex(rs, LAMBDA r : r.id = id)

\* The arguments create_rule is called with: the required fields, and calls
\* that leave the title or the category out
CreateCategoryNames == {S_git, S_Git, S_gitlab}
CreateTitles == {"t1"}

CreateArgs ==
    { ("title" :> title) @@ ("category" :> category) @@ ("content" :> "c1") :
        title \in CreateTitles, category \in CreateCategoryNames }
    \cup { ("category" :> S_git) @@ ("content" :> "c1"),
           ("title" :> "t1") @@ ("content" :> "c1") }

\* The rule whose id is numbered by the rules rules.json holds
newRule_countsSaved(args, rs, t) ==
    Pick(args, {"title", "content"}) @@
    [id |-> generateId(IF rulesFile.exists THEN rulesFile.data ELSE <<>>, args.category),
     category |-> args.category,
     description |-> ArgOr(args, "description", ""),
     tags |-> ArgOr(args, "tags", <<>>),
     examples |-> ArgOr(args, "examples", <<>>),
     relatedRules |-> <<>>,
     timestamp |-> t,
     version |-> "1.0.0"]

\* const rule: Rule = { id: this.generateId(category), title, ..., version: "1.0.0" }
newRule(args, rs, t) ==
    Pick(args, {"title", "content"}) @@
    [id |-> generateId(rs, args.category),
     category |-> args.category,
     description |-> ArgOr(args, "description", ""),
     tags |-> ArgOr(args, "tags", <<>>),
     examples |-> ArgOr(args, "examples", <<>>),
     relatedRules |-> <<>>,
     timestamp |-> t,
     version |-> "1.0.0"]

\* createRule(args)
createRule(args, t, outcome) ==
    /\ server = "rules"
    /\ request' = [tool |-> "create_rule", args |-> args]
    /\ UNCHANGED <<server, loading, saving, runner, exportedFrom, memories, memoriesFile, exportFile,
                   inserted, onlyCreates, deletes>>
    /\ IF ~Has(args, "category")
       THEN \* generateId(undefined): undefined.substring throws a TypeError
            /\ response' = Err("create_rule", "Cannot read properties of undefined")
            /\ UNCHANGED <<rules, categories, rulesFile, categoriesFile, now, issued, calls>>
       ELSE LET rule == newRule(args, rules, t)
                rs == Append(rules, rule)
                cs == pushRuleId(ensureCategory(categories, args.category),
                                 args.category, rule.id)
            IN  /\ Len(issued) < MaxCreates
                /\ calls' = calls + 1
                /\ rules' = rs
                /\ categories' = cs
                /\ rulesFile' = saveRulesFile(outcome, rs)
                /\ categoriesFile' = saveCategoriesFile(outcome, cs)
                /\ now' = t
                /\ issued' = Append(issued, [id |-> rule.id, category |-> rule.category])
                /\ response' = saveResponse("create_rule", rule.id, outcome)

CreateRule == \E args \in CreateArgs, t \in Tick, outcome \in SaveOutcomes :
    createRule(args, t, outcome)

\* The ids delete_rule is called with: the ids in the store and one that is not
UnknownId == <<"n", "o", "-", "0", "0", "0">>
DeleteIds == Elems([i \in 1..Len(rules) |-> rules[i].id]) \cup {UnknownId}

\* deleteRule(args)
deleteRule(id, t, outcome) ==
    LET ruleIndex == findIndexById(rules, id)
    IN  /\ server = "rules"
        /\ deletes < MaxDeletes
        /\ deletes' = deletes + 1
        /\ onlyCreates' = FALSE
        /\ request' = [tool |-> "delete_rule", args |-> [id |-> id]]
        /\ UNCHANGED <<server, loading, saving, runner, exportedFrom, memories, memoriesFile, exportFile,
                       inserted, issued>>
        /\ IF ruleIndex = 0
           THEN /\ response' = Err("delete_rule", "Rule not found")
                /\ UNCHANGED <<rules, categories, rulesFile, categoriesFile, now, calls>>
           ELSE LET rule == rules[ruleIndex]
                    rs == RemoveAt(rules, ruleIndex)
                    cs == [i \in 1..Len(categories) |->
                             IF i = FindIndex(categories, LAMBDA c : c.name = rule.category)
                             THEN [categories[i] EXCEPT
                                     !.rules = FilterSeq(@, LAMBDA ruleId : ruleId # id)]
                             ELSE categories[i]]
                IN  /\ calls' = calls + 1
                    /\ rules' = rs
                    /\ categories' = cs
                    /\ rulesFile' = saveRulesFile(outcome, rs)
                    /\ categoriesFile' = saveCategoriesFile(outcome, cs)
                    /\ now' = now
                    /\ response' = saveResponse("delete_rule", id, outcome)

DeleteRule == \E id \in DeleteIds, outcome \in SaveOutcomes :
    deleteRule(id, now, outcome)

----------------------------------------------------------------------------
(* The scorer and the search pipeline of the rules server *)

\* new RegExp(pattern, "g") over the alphabet of the model (letters, "." and
\* "("): the constructor throws a SyntaxError exactly for a pattern with a "(",
\* a group that is never closed.
RegExpCompiles(pattern) == \A i \in 1..Len(pattern) : pattern[i] # "("

\* The pattern matches s at index i: a letter matches itself, "." any character
\* (the alphabet holds no line terminator)
MatchAt(s, i, pattern) ==
    /\ i + Len(pattern) - 1 <= Len(s)
    /\ \A k \in 1..Len(pattern) : pattern[k] = "." \/ pattern[k] = s[i + k - 1]

\* The matches of the global pattern found scanning s from index i on: after a
\* match the scan resumes behind it
RECURSIVE ScanMatches(_, _, _)
ScanMatches(s, i, pattern) ==
    IF i + Len(pattern) - 1 > Len(s) THEN 0
    ELSE IF MatchAt(s, i, pattern) THEN 1 + ScanMatches(s, i + Len(pattern), pattern)
    ELSE ScanMatches(s, i + 1, pattern)

\* (s.match(new RegExp(pattern, "g")) || []).length for a pattern that compiles;
\* the empty pattern matches the empty string at every index 0..s.length
matchCount(s, pattern) ==
    IF pattern = <<>> THEN Len(s) + 1 ELSE ScanMatches(s, 1, pattern)

\* tags.filter(tag => tag includes query || query includes tag).length
tagMatches(tags, queryLower) ==
    Len(FilterSeq(tags, LAMBDA tag :
        \/ includes(toLowerCase(tag), queryLower)
        \/ includes(queryLower, toLowerCase(tag))))

\* calculateSimilarity throws: new RegExp(queryLower, "g") is evaluated on every
\* call, whatever the record
similarityThrows(query) == ~RegExpCompiles(toLowerCase(query))

\* RulesMCPServer.calculateSimilarity(query, rule), when it does not throw
calculateSimilarity(query, rule) ==
    LET queryLower == toLowerCase(query)
        exampleMatches == Len(FilterSeq(rule.examples, LAMBDA example :
                                includes(toLowerCase(example), queryLower)))
    IN    (IF includes(toLowerCase(rule.title), queryLower) THEN 50 ELSE 0)
        + matchCount(toLowerCase(rule.content), queryLower) * 15
        + tagMatches(rule.tags, queryLower) * 40
        + (IF includes(toLowerCase(rule.category), queryLower) THEN 30 ELSE 0)
        + (IF includes(toLowerCase(rule.description), queryLower) THEN 25 ELSE 0)
        + exampleMatches * 10

\* The category stage of the filter
categoryStage(records, args) ==
    IF Truthy(args, "category")
    THEN FilterSeq(records, LAMBDA r :
            includes(toLowerCase(r.category), toLowerCase(args.category)))
    ELSE records

\* The tags stage, were it to match in either direction as the scorer does
tagsStage_eitherDirection(records, args) ==
    IF Has(args, "tags") /\ Len(args.tags) > 0
    THEN FilterSeq(records, LAMBDA r :
            \E i \in 1..Len(args.tags) : \E j \in 1..Len(r.tags) :
                \/ includes(toLowerCase(r.tags[j]), toLowerCase(args.tags[i]))
                \/ includes(toLowerCase(args.tags[i]), toLowerCase(r.tags[j])))
    ELSE records

\* The tags stage of the filter: if (tags && tags.length > 0)
tagsStage(records, args) ==
    IF Has(args, "tags") /\ Len(args.tags) > 0
    THEN FilterSeq(records, LAMBDA r :
            \E i \in 1..Len(args.tags) : \E j \in 1..Len(r.tags) :
                includes(toLowerCase(r.tags[j]), toLowerCase(args.tags[i])))
    ELSE records

\* searchRules: the filters applied to this.rules
filterRules(rs, args) == tagsStage(categoryStage(rs, args), args)

\* The score filter, were it to let a score of 0 through
positiveOnly_keepsZero(scored) == FilterSeq(scored, LAMBDA result : result.similarity >= 0)

\* .filter(result => result.similarity > 0)
positiveOnly(scored) == FilterSeq(scored, LAMBDA result : result.similarity > 0)

\* The insertion, were it to put x before the entries it ties with
RECURSIVE insertDesc_beforeTies(_, _)
insertDesc_beforeTies(sorted, x) ==
    IF sorted = <<>> THEN <<x>>
    ELSE IF Head(sorted).similarity > x.similarity
         THEN <<Head(sorted)>> \o insertDesc_beforeTies(Tail(sorted), x)
         ELSE <<x>> \o sorted

\* Insert x behind the entries that do not score lower than it
RECURSIVE insertDesc(_, _)
insertDesc(sorted, x) ==
    IF sorted = <<>> THEN <<x>>
    ELSE IF Head(sorted).similarity >= x.similarity
         THEN <<Head(sorted)>> \o insertDesc(Tail(sorted), x)
         ELSE <<x>> \o sorted

\* .sort((a, b) => b.similarity - a.similarity): Array.prototype.sort is stable
RECURSIVE sortDesc(_)
sortDesc(scored) ==
    IF scored = <<>> THEN <<>>
    ELSE insertDesc(sortDesc(SubSeq(scored, 1, Len(scored) - 1)), scored[Len(scored)])

\* The slice, were it to keep one entry more than asked for
slice0_oneMore(seq, end) ==
    LET stop == IF end < 0 THEN Max(Len(seq) + end, 0) ELSE Min(end + 1, Len(seq))
    IN  SubSeq(seq, 1, stop)

\* .slice(0, end) for an integer end: a negative end counts from the back
slice0(seq, end) ==
    LET stop == IF end < 0 THEN Max(Len(seq) + end, 0) ELSE Min(end, Len(seq))
    IN  SubSeq(seq, 1, stop)

\* const { limit = 5 } = args
limitOf(args) == IF Has(args, "limit") THEN args.limit ELSE 5

\* searchRules(args): the response.  The scorer runs once per filtered rule, so
\* it throws only when some rule passed the filters.
searchRules(rs, args) ==
    LET filtered == filterRules(rs, args)
        scored == [i \in 1..Len(filtered) |->
                     [rule |-> filtered[i],
                      similarity |-> calculateSimilarity(args.query, filtered[i])]]
    IN  IF filtered # <<>> /\ similarityThrows(args.query)
        THEN Err("search_rules", "Invalid regular expression")
        ELSE Ok("search_rules", slice0(sortDesc(positiveOnly(scored)), limitOf(args)))

----------------------------------------------------------------------------
(* The memory server: scorer, search pipeline and handlers *)

\* Array.prototype.join(" ")
RECURSIVE joinSpace(_)
joinSpace(strs) ==
    IF strs = <<>> THEN <<>>
    ELSE IF Len(strs) = 1 THEN strs[1]
    ELSE strs[1] \o <<" ">> \o joinSpace(Tail(strs))

\* Object.values(context): the values of the context's fields, in field order.
\* A context is the sequence of its [key, value] fields.
contextValues(context) == [i \in 1..Len(context) |-> context[i].value]

\* MemoryMCPServer.calculateSimilarity(query, memory), when it does not throw
calculateSimilarityMem(query, memory) ==
    LET queryLower == toLowerCase(query)
        contextText == toLowerCase(joinSpace(contextValues(memory.context)))
    IN    (IF includes(toLowerCase(memory.title), queryLower) THEN 50 ELSE 0)
        + matchCount(toLowerCase(memory.content), queryLower) * 20
        + tagMatches(memory.tags, queryLower) * 30
        + (IF includes(contextText, queryLower) THEN 25 ELSE 0)
        + (IF includes(toLowerCase(memory.category), queryLower) THEN 25 ELSE 0)

\* The project stage of the filter
projectStage(records, args) ==
    IF Truthy(args, "project")
    THEN FilterSeq(records, LAMBDA m :
            includes(toLowerCase(m.project), toLowerCase(args.project)))
    ELSE records

\* searchMemories: the filters applied to this.memories
filterMemories(ms, args) ==
    tagsStage(categoryStage(projectStage(ms, args), args), args)

\* memory.tags.filter(tag => tag includes query || query includes tag)
relevantTags(tags, query) ==
    FilterSeq(tags, LAMBDA tag :
        \/ includes(toLowerCase(tag), toLowerCase(query))
        \/ includes(toLowerCase(query), toLowerCase(tag)))

\* searchMemories(args): the response
searchMemories(ms, args) ==
    LET filtered == filterMemories(ms, args)
        scored == [i \in 1..Len(filtered) |->
                     [entry |-> filtered[i],
                      similarity |-> calculateSimilarityMem(args.query, filtered[i]),
                      relevantTags |-> relevantTags(filtered[i].tags, args.query)]]
    IN  IF filtered # <<>> /\ ~Has(filtered[1], "title")
        THEN \* memory.title.toLowerCase() throws a TypeError
             Err("search_memories", "Cannot read properties of undefined")
        ELSE IF filtered # <<>> /\ similarityThrows(args.query)
        THEN Err("search_memories", "Invalid regular expression")
        ELSE IF \E i \in 1..Len(filtered) : ~Has(filtered[i], "title")
        THEN Err("search_memories", "Cannot read properties of undefined")
        ELSE Ok("search_memories", slice0(sortDesc(positiveOnly(scored)), limitOf(args)))

----------------------------------------------------------------------------
(* JSON text and the files of export and import *)

\* The property order of a rule and of a memory entry
RuleKeys == <<"id", "title", "category", "description", "content", "tags",
              "examples", "relatedRules", "timestamp", "version">>
MemoryKeys == <<"id", "project", "category", "title", "content", "tags",
                "timestamp", "context">>

\* JSON.stringify(records, null, 2): the text of an array of objects, each
\* object the list of its members <<key, value>> in property order
stringifyObject(obj, keys) ==
    LET present == SelectSeq(keys, LAMBDA k : k \in DOMAIN obj)
    IN  [i \in 1..Len(present) |-> <<present[i], obj[present[i]]>>]

JSONstringify(records, keys) ==
    [syntax |-> "json",
     value |-> [i \in 1..Len(records) |-> stringifyObject(records[i], keys)]]

\* JSON.parse(text) of a text that is JSON: the objects of the array
parseObject(members) ==
    [k \in {members[i][1] : i \in 1..Len(members)} |->
        members[CHOOSE i \in 1..Len(members) : members[i][1] = k][2]]

JSONparse(text) == [i \in 1..Len(text.value) |-> parseObject(text.value[i])]

\* The markdown rendering of the exported records: a heading and the printed
\* fields of each, which is not JSON
markdownOf(records) ==
    [syntax |-> "markdown",
     value |-> [i \in 1..Len(records) |-> Pick(records[i], {"title", "category", "content"})]]

----------------------------------------------------------------------------
(* The rules server: update, categories, listing, export and import *)

\* The merge with the spreads in the other order: { ...updates, ...rule }
mergeRule_existingFieldsWin(rule, updates, t) ==
    [f \in DOMAIN rule \cup DOMAIN updates \cup {"timestamp"} |->
        IF f = "timestamp" THEN t
        ELSE IF f \in DOMAIN rule THEN rule[f]
        ELSE updates[f]]

\* { ...this.rules[ruleIndex], ...updates, timestamp: new Date().toISOString() }
mergeRule(rule, updates, t) ==
    [f \in DOMAIN rule \cup DOMAIN updates \cup {"timestamp"} |->
        IF f = "timestamp" THEN t
        ELSE IF f \in DOMAIN updates THEN updates[f]
        ELSE rule[f]]

\* The ids get_rule_by_id and update_rule are called with: the id of a seeded
\* rule, which is also the first id minted for "git", and one no store holds
TargetIds == {S_git \o S_dash001, UnknownId}

\* The fields update_rule is called with, next to the id
UpdateFields == {"title" :> "t2", "category" :> S_coding}

\* updateRule(args)
updateRule(args, t, outcome) ==
    LET id == args.id
        updates == Pick(args, DOMAIN args \ {"id"})
        ruleIndex == findIndexById(rules, id)
    IN  /\ server = "rules"
        /\ onlyCreates' = FALSE
        /\ request' = [tool |-> "update_rule", args |-> args]
        /\ UNCHANGED <<server, loading, saving, runner, exportedFrom, memories, memoriesFile, exportFile,
                       inserted, issued, deletes, categories>>
        /\ IF ruleIndex = 0
           THEN /\ response' = Err("update_rule", "Rule not found")
                /\ UNCHANGED <<rules, rulesFile, categoriesFile, now, calls>>
           ELSE LET rs == [rules EXCEPT ![ruleIndex] = mergeRule(@, updates, t)]
                IN  /\ calls' = calls + 1
                    /\ rules' = rs
                    /\ rulesFile' = saveRulesFile(outcome, rs)
                    /\ categoriesFile' = saveCategoriesFile(outcome, categories)
                    /\ now' = t
                    /\ response' = saveResponse("update_rule", id, outcome)

UpdateRule ==
    \E id \in TargetIds, fields \in UpdateFields, t \in Tick, outcome \in SaveOutcomes :
        updateRule(("id" :> id) @@ fields, t, outcome)

\* getRuleById(args): the rule, and the related rules that are in the store
getRuleById(id) ==
    LET ruleIndex == findIndexById(rules, id)
    IN  /\ server = "rules"
        /\ request' = [tool |-> "get_rule_by_id", args |-> [id |-> id]]
        /\ response' =
             IF ruleIndex = 0 THEN Err("get_rule_by_id", "Rule not found")
             ELSE Ok("get_rule_by_id",
                     [rule |-> rules[ruleIndex],
                      relatedRules |-> SelectSeq(rules[ruleIndex].relatedRules,
                                                 LAMBDA relatedId : findIndexById(rules, relatedId) # 0)])
        /\ UNCHANGED <<server, loading, saving, runner, exportedFrom, calls, rules, categories, rulesFile,
                       categoriesFile, memories, memoriesFile, exportFile, now, issued,
                       inserted, onlyCreates, deletes>>

GetRuleById == \E id \in TargetIds : getRuleById(id)

\* The categories get_rules_by_category is called with
ListedCategories == {S_git, S_Git}

\* getRulesByCategory(args): the rules the report lists
rulesOfCategory(rs, category) ==
    FilterSeq(rs, LAMBDA r : includes(toLowerCase(r.category), toLowerCase(category)))

getRulesByCategory(category) ==
    /\ server = "rules"
    /\ request' = [tool |-> "get_rules_by_category", args |-> [category |-> category]]
    /\ response' = Ok("get_rules_by_category", rulesOfCategory(rules, category))
    /\ UNCHANGED <<server, loading, saving, runner, exportedFrom, calls, rules, categories, rulesFile,
                   categoriesFile, memories, memoriesFile, exportFile, now, issued,
                   inserted, onlyCreates, deletes>>

GetRulesByCategory == \E category \in ListedCategories : getRulesByCategory(category)

\* listCategories()
ListCategories ==
    /\ server = "rules"
    /\ request' = [tool |-> "list_categories", args |-> NoArgs]
    /\ response' = Ok("list_categories", categories)
    /\ UNCHANGED <<server, loading, saving, runner, exportedFrom, calls, rules, categories, rulesFile,
                   categoriesFile, memories, memoriesFile, exportFile, now, issued,
                   inserted, onlyCreates, deletes>>

\* The arguments create_category is called with
CategoryArgs ==
    { "name" :> S_gitlab, ("name" :> S_coding) @@ ("description" :> "d1") }

\* createCategory(args)
createCategory(args, outcome) ==
    LET name == args.name
        description == IF Has(args, "description") THEN args.description ELSE RulesFor(name)
        cs == Append(categories, [name |-> name, description |-> description, rules |-> <<>>])
    IN  /\ server = "rules"
        /\ onlyCreates' = FALSE
        /\ request' = [tool |-> "create_category", args |-> args]
        /\ UNCHANGED <<server, loading, saving, runner, exportedFrom, memories, memoriesFile, exportFile,
                       inserted, issued, deletes, rules, now>>
        /\ IF \E i \in 1..Len(categories) : categories[i].name = name
           THEN /\ response' = Err("create_category", "Category already exists")
                /\ UNCHANGED <<categories, rulesFile, categoriesFile, calls>>
           ELSE /\ calls' = calls + 1
                /\ categories' = cs
                /\ rulesFile' = saveRulesFile(outcome, rules)
                /\ categoriesFile' = saveCategoriesFile(outcome, cs)
                /\ response' = saveResponse("create_category", name, outcome)

CreateCategory == \E args \in CategoryArgs, outcome \in SaveOutcomes :
    createCategory(args, outcome)

\* A name that is no tool of the server: the default case of the switch
UnknownTool ==
    /\ request' = [tool |-> "no_such_tool", args |-> NoArgs]
    /\ response' = Err("no_such_tool", "Unknown tool")
    /\ UNCHANGED <<server, loading, saving, runner, exportedFrom, calls, rules, categories, rulesFile,
                   categoriesFile, memories, memoriesFile, exportFile, now, issued,
                   inserted, onlyCreates, deletes>>

\* The import that keeps only the imported records
pushAll_replaces(store, items) == items

\* this.rules.push(...importedRules) / this.memories.push(...importedMemories)
pushAll(store, items) == store \o items

\* The backfill that mints an id for every imported rule
backfillRule_alwaysMints(rule, rs, t) ==
    [f \in DOMAIN rule \cup {"id", "timestamp"} |->
        IF f = "id" THEN generateId(rs, rule.category)
        ELSE IF f = "timestamp"
        THEN IF Has(rule, "timestamp") THEN rule.timestamp ELSE t
        ELSE rule[f]]

\* if (!rule.id) rule.id = this.generateId(rule.category);
\* if (!rule.timestamp) rule.timestamp = new Date().toISOString();
backfillRule(rule, rs, t) ==
    [f \in DOMAIN rule \cup {"id", "timestamp"} |->
        IF f = "id"
        THEN IF Truthy(rule, "id") THEN rule.id ELSE generateId(rs, rule.category)
        ELSE IF f = "timestamp"
        THEN IF Has(rule, "timestamp") THEN rule.timestamp ELSE t
        ELSE rule[f]]

\* importedRules.forEach(rule => ...): the category of each imported rule is
\* looked up, created when there is none, and given the id unless it has it
RECURSIVE indexImported(_, _)
indexImported(cs, importedRules) ==
    IF importedRules = <<>> THEN cs
    ELSE LET rule == Head(importedRules)
             ensured == ensureCategory(cs, rule.category)
             k == FindIndex(ensured, LAMBDA c : c.name = rule.category)
             pushed == IF rule.id \in Elems(ensured[k].rules) THEN ensured
                       ELSE pushRuleId(ensured, rule.category, rule.id)
         IN  indexImported(pushed, Tail(importedRules))

\* The files import_rules is pointed at: none, a rule that carries an id and a
\* timestamp, and two rules that carry neither
ImportedRule(title, category) ==
    [title |-> title, category |-> category, description |-> "", content |-> "c3",
     tags |-> <<>>, examples |-> <<>>, relatedRules |-> <<>>, version |-> "1.0.0"]

RuleImportFiles ==
    { NoFile,
      FileOf(JSONstringify(<< ImportedRule("t3", S_gitlab)
                              @@ ("id" :> <<"i", "m", "p", "-", "0", "0", "1">>)
                              @@ ("timestamp" :> 0) >>, RuleKeys)),
      FileOf(JSONstringify(<< ImportedRule("t4", S_git), ImportedRule("t5", S_git) >>,
                           RuleKeys)) }

\* importRules(args)
importRules(args, t, outcome) ==
    LET file == args.filePath
    IN  /\ server = "rules"
        /\ onlyCreates' = FALSE
        /\ request' = [tool |-> "import_rules", args |-> args]
        /\ UNCHANGED <<server, loading, saving, runner, exportedFrom, memories, memoriesFile, exportFile,
                       inserted, issued, deletes>>
        /\ IF ~file.exists
           THEN /\ response' = Err("import_rules", "File not found")
                /\ UNCHANGED <<rules, categories, rulesFile, categoriesFile, now, calls>>
           ELSE IF formatOf(args) # "json"
           THEN /\ response' = Err("import_rules", "Markdown import not yet implemented")
                /\ UNCHANGED <<rules, categories, rulesFile, categoriesFile, now, calls>>
           ELSE IF file.data.syntax # "json"
           THEN \* JSON.parse throws a SyntaxError
                /\ response' = Err("import_rules", "Unexpected token")
                /\ UNCHANGED <<rules, categories, rulesFile, categoriesFile, now, calls>>
           ELSE LET parsed == JSONparse(file.data)
                    importedRules ==
                        [i \in 1..Len(parsed) |-> backfillRule(parsed[i], rules, t)]
                    rs == pushAll(rules, importedRules)
                    cs == indexImported(categories, importedRules)
                IN  /\ calls' = calls + 1
                    /\ rules' = rs
                    /\ categories' = cs
                    /\ rulesFile' = saveRulesFile(outcome, rs)
                    /\ categoriesFile' = saveCategoriesFile(outcome, cs)
                    /\ now' = t
                    /\ response' = saveResponse("import_rules", Len(importedRules), outcome)

\* The arguments import_rules is called with
ImportRulesArgs ==
    { "filePath" :> file : file \in RuleImportFiles }
    \cup { ("filePath" :> file) @@ ("format" :> "markdown") :
             file \in RuleImportFiles \ {NoFile} }

ImportRules == \E args \in ImportRulesArgs, t \in Tick, outcome \in SaveOutcomes :
    importRules(args, t, outcome)

\* The arguments export_rules is called with
ExportRulesArgs ==
    { NoArgs, "format" :> "json", ("format" :> "json") @@ ("category" :> SA),
      "format" :> "markdown" }

\* exportRules(args): the export file holds the selected rules, as JSON or
\* rendered as markdown
exportRules(args, outcome) ==
    LET rulesToExport == categoryStage(rules, args)
    IN  /\ server = "rules"
        /\ exportFile' = IF outcome # "ok" THEN exportFile
                         ELSE IF formatOf(args) = "json"
                         THEN FileOf(JSONstringify(rulesToExport, RuleKeys))
                         ELSE FileOf(markdownOf(rulesToExport))
        /\ exportedFrom' = IF outcome # "ok" THEN exportedFrom
                           ELSE [exists |-> TRUE, store |-> rules, args |-> args]
        /\ request' = [tool |-> "export_rules", args |-> args]
        /\ response' = IF outcome = "ok" THEN Ok("export_rules", Len(rulesToExport))
                       ELSE Err("export_rules", "write failed")
        /\ UNCHANGED <<server, loading, saving, runner, calls, rules, categories, rulesFile, categoriesFile,
                       memories, memoriesFile, now, issued, inserted, onlyCreates, deletes>>

ExportRules == \E args \in ExportRulesArgs, outcome \in {"ok", "fail"} :
    exportRules(args, outcome)

----------------------------------------------------------------------------
(* The rules server after loadRules() has completed: the storage directory *)
(* was missing (the default rules are seeded and saved) or it exists and   *)
(* holds no file (the store is empty).                                     *)

InitRulesEmpty ==
    /\ rules = <<>>
    /\ categories = <<>>
    /\ rulesFile = NoFile
    /\ categoriesFile = NoFile

InitRulesSeeded ==
    /\ rules = defaultRules(0)
    /\ categories = seededCategories(defaultRules(0))
    /\ rulesFile = FileOf(defaultRules(0))
    /\ categoriesFile = FileOf(seededCategories(defaultRules(0)))

InitRules ==
    /\ server = "rules"
    /\ InitRulesEmpty \/ InitRulesSeeded
    /\ memories = <<>>
    /\ memoriesFile = NoFile
    /\ exportFile = NoFile
    /\ now = 0
    /\ response = [kind |-> "none"]
    /\ request = [tool |-> "none"]
    /\ issued = <<>>
    /\ inserted = <<>>
    /\ onlyCreates = TRUE
    /\ deletes = 0
    /\ calls = 0
    /\ exportedFrom = NoExport
    /\ runner = NoRunner
    /\ loading = Loaded
    /\ saving = NoSaves

NextRules == CreateRule \/ DeleteRule

SpecRules == InitRules /\ [][NextRules]_vars

\* The rules server serving the tools that change the store or read it by id
\* or by category, until MaxCalls calls have changed it
NextRulesAll ==
    \/ calls < MaxCalls /\ CreateRule
    \/ calls < MaxCalls /\ DeleteRule
    \/ calls < MaxCalls /\ UpdateRule
    \/ calls < MaxCalls /\ CreateCategory
    \/ calls < MaxCalls /\ ImportRules
    \/ GetRuleById
    \/ GetRulesByCategory
    \/ ListCategories
    \/ UnknownTool

SpecRulesAll == InitRules /\ [][NextRulesAll]_vars

\* The rules server serving create_rule, update_rule and delete_rule only
NextRulesEdit ==
    \/ calls < MaxCalls /\ CreateRule
    \/ calls < MaxCalls /\ UpdateRule
    \/ calls < MaxCalls /\ DeleteRule

SpecRulesEdit == InitRules /\ [][NextRulesEdit]_vars

\* create_rule with category names of fewer than three characters and of
\* mixed case, next to those of CreateArgs
S_Go == <<"G", "o">>
S_c == <<"c">>
MintArgs ==
    CreateArgs \cup { ("title" :> "t1") @@ ("category" :> category) @@ ("content" :> "c1") :
                        category \in {S_Go, S_c, S_coding} }

MintRule == \E args \in MintArgs, t \in Tick, outcome \in SaveOutcomes :
    createRule(args, t, outcome)

\* The rules server serving create_rule, for these categories, and delete_rule
NextMint ==
    \/ calls < MaxCalls /\ MintRule
    \/ calls < MaxCalls /\ DeleteRule

SpecMint == InitRules /\ [][NextMint]_vars

----------------------------------------------------------------------------
(* The search pipeline applied to bounded stores, queries, filters, limits *)

\* The sequences over S of length at most n
SeqsUpTo(S, n) == UNION {[1..k -> S] : k \in 0..n}

\* The rules a searched store is made of.  r1 and r2 differ in their id only,
\* so they tie on every query.
SearchRule(id, title, category, description, content, tags, examples) ==
    [id |-> id, title |-> title, category |-> category, description |-> description,
     content |-> content, tags |-> tags, examples |-> examples,
     relatedRules |-> <<>>, timestamp |-> 0, version |-> "1.0.0"]

RuleCands ==
    { SearchRule(<<"r", "1">>, SAb, Sa, Sb, Saba, <<Sa, SAb>>, <<Sab, Sb>>),
      SearchRule(<<"r", "2">>, SAb, Sa, Sb, Saba, <<Sa, SAb>>, <<Sab, Sb>>),
      SearchRule(<<"r", "3">>, Sb, Sab, Sempty, Sb, <<Sb>>, <<>>),
      SearchRule(<<"r", "4">>, Sparen, Sb, <<"a", ".">>, <<"a", ".", "b", "(">>, <<Sparen>>, <<Sdot>>) }

SearchMemory(id, project, category, title, content, tags, context) ==
    [id |-> id, project |-> project, category |-> category, title |-> title,
     content |-> content, tags |-> tags, timestamp |-> 0, context |-> context]

MemCands ==
    { SearchMemory(<<"m", "1">>, Sa, Sa, SAb, Saba, <<Sa, SAb>>,
                   <<[key |-> "language", value |-> Sa], [key |-> "problem", value |-> SAb]>>),
      SearchMemory(<<"m", "2">>, Sa, Sa, SAb, Saba, <<Sa, SAb>>,
                   <<[key |-> "language", value |-> Sa], [key |-> "problem", value |-> SAb]>>),
      SearchMemory(<<"m", "3">>, Sab, Sab, Sb, Sb, <<Sb>>, <<>>),
      SearchMemory(<<"m", "4">>, Sb, Sb, Sparen, <<"a", ".", "b", "(">>, <<Sparen>>,
                   <<[key |-> "solution", value |-> Sdot]>>) }

Queries == {Sempty, Sa, SAB, Sdot, Sparen}
Limits == {-1, 0, 1}
TagLists == {<<>>, <<SA>>, <<Sab, Sparen>>}

RuleSearchArgs ==
    { ("query" :> q) @@ c @@ t @@ l :
        q \in Queries, c \in Opt("category", {SA}),
        t \in Opt("tags", TagLists), l \in Opt("limit", Limits) }

MemSearchArgs ==
    { a @@ p : a \in RuleSearchArgs, p \in Opt("project", {SA}) }

\* The search handlers change nothing of the server, so one call from each
\* store reaches every (store, request, response) there is.
SearchRules == \E args \in RuleSearchArgs :
    /\ server = "rules"
    /\ request.tool = "none"
    /\ request' = [tool |-> "search_rules", args |-> args]
    /\ response' = searchRules(rules, args)
    /\ UNCHANGED <<server, loading, saving, runner, exportedFrom, calls, rules, categories, rulesFile, categoriesFile, memories,
                   memoriesFile, exportFile, now, issued, inserted, onlyCreates, deletes>>

SearchMemories == \E args \in MemSearchArgs :
    /\ server = "memory"
    /\ request.tool = "none"
    /\ request' = [tool |-> "search_memories", args |-> args]
    /\ response' = searchMemories(memories, args)
    /\ UNCHANGED <<server, loading, saving, runner, exportedFrom, calls, rules, categories, rulesFile, categoriesFile, memories,
                   memoriesFile, exportFile, now, issued, inserted, onlyCreates, deletes>>

\* Any store can be reached by importing a file that holds it.
InitSearch ==
    /\ \/ server = "rules" /\ rules \in SeqsUpTo(RuleCands, MaxStore) /\ memories = <<>>
       \/ server = "memory" /\ rules = <<>> /\ memories \in SeqsUpTo(MemCands, MaxStore)
    /\ categories = <<>>
    /\ rulesFile = NoFile
    /\ categoriesFile = NoFile
    /\ memoriesFile = NoFile
    /\ exportFile = NoFile
    /\ now = 0
    /\ response = [kind |-> "none"]
    /\ request = [tool |-> "none"]
    /\ issued = <<>>
    /\ inserted = <<>>
    /\ onlyCreates = TRUE
    /\ deletes = 0
    /\ calls = 0
    /\ exportedFrom = NoExport
    /\ runner = NoRunner
    /\ loading = Loaded
    /\ saving = NoSaves

NextSearch == SearchRules \/ SearchMemories

SpecSearch == InitSearch /\ [][NextSearch]_vars

----------------------------------------------------------------------------
(* The memory server's handlers *)

\* The suffixes Math.random().toString(36).substr(2, 9) is drawn from (one
\* value: nothing modelled here turns on two memory ids being different)
RandomSuffixes == {<<"z">>}

\* generateId(): `mem_${Date.now()}_${suffix}`
generateMemId(t, suffix) ==
    <<"m", "e", "m", "_">> \o NumToString(t) \o <<"_">> \o suffix

\* The ways saveMemories() can end
MemSaveOutcomes == {"ok", "fail"}

saveMemoriesFile(outcome, ms) ==
    IF outcome = "ok" THEN FileOf(ms) ELSE memoriesFile

\* The arguments store_experience is called with
StoreArgs ==
    { [project |-> Sa, category |-> Sa, title |-> Sa, content |-> Sab],
      [project |-> Sb, category |-> Sa, title |-> Sa, content |-> Sab, tags |-> <<Sb>>],
      [project |-> Sa, category |-> Sa, content |-> Sab] }

\* storeExperience(args)
storeExperience(args, t, suffix, outcome) ==
    LET memory == Pick(args, {"project", "category", "title", "content"}) @@
                  [id |-> generateMemId(t, suffix),
                   tags |-> IF Has(args, "tags") THEN args.tags ELSE <<>>,
                   timestamp |-> t,
                   context |-> IF Has(args, "context") THEN args.context ELSE <<>>]
        ms == Append(memories, memory)
    IN  /\ server = "memory"
        /\ Len(memories) < MaxMemories
        /\ memories' = ms
        /\ memoriesFile' = saveMemoriesFile(outcome, ms)
        /\ now' = t
        /\ inserted' = Append(inserted, memory)
        /\ request' = [tool |-> "store_experience", args |-> args]
        /\ response' = saveResponse("store_experience", memory.id, outcome)
        /\ UNCHANGED <<server, loading, saving, runner, exportedFrom, calls, rules, categories, rulesFile, categoriesFile,
                       exportFile, issued, onlyCreates, deletes>>

StoreExperience ==
    \E args \in StoreArgs, t \in Tick, suffix \in RandomSuffixes, outcome \in MemSaveOutcomes :
        storeExperience(args, t, suffix, outcome)

\* The filters search_memories is called with on the running server
StoredSearchArgs ==
    { ("query" :> Sa) @@ p @@ t : p \in Opt("project", {SA}), t \in Opt("tags", {<<Sb>>}) }

SearchStored == \E args \in StoredSearchArgs :
    /\ server = "memory"
    /\ request' = [tool |-> "search_memories", args |-> args]
    /\ response' = searchMemories(memories, args)
    /\ UNCHANGED <<server, loading, saving, runner, exportedFrom, calls, rules, categories, rulesFile, categoriesFile, memories,
                   memoriesFile, exportFile, now, issued, inserted, onlyCreates, deletes>>

\* Insert m behind the entries that are not older than it
RECURSIVE insertNewestFirst(_, _)
insertNewestFirst(sorted, m) ==
    IF sorted = <<>> THEN <<m>>
    ELSE IF Head(sorted).timestamp >= m.timestamp
         THEN <<Head(sorted)>> \o insertNewestFirst(Tail(sorted), m)
         ELSE <<m>> \o sorted

\* this.memories.sort((a, b) => time(b) - time(a)): in place, stable
RECURSIVE sortNewestFirst(_)
sortNewestFirst(ms) ==
    IF ms = <<>> THEN <<>>
    ELSE insertNewestFirst(sortNewestFirst(SubSeq(ms, 1, Len(ms) - 1)), ms[Len(ms)])

\* [...new Set(values)].length
CountDistinct(values) == Cardinality(Elems(values))

\* getMemoryStats(): the figures of the report, and the store as the in-place
\* sort of its "Latest Memories" section leaves it
getMemoryStats ==
    LET sorted == sortNewestFirst(memories)
        latest == slice0(sorted, 5)
    IN  /\ server = "memory"
        /\ memories' = sorted
        /\ request' = [tool |-> "get_memory_stats", args |-> NoArgs]
        /\ response' = Ok("get_memory_stats",
                          [total |-> Len(memories),
                           projects |-> CountDistinct([i \in 1..Len(memories) |-> memories[i].project]),
                           categories |-> CountDistinct([i \in 1..Len(memories) |-> memories[i].category]),
                           tags |-> Cardinality(UNION {Elems(memories[i].tags) : i \in 1..Len(memories)}),
                           latest |-> [i \in 1..Len(latest) |->
                                         IF Has(latest[i], "title") THEN latest[i].title
                                         ELSE <<"u", "n", "d", "e", "f", "i", "n", "e", "d">>]])
        /\ UNCHANGED <<server, loading, saving, runner, exportedFrom, calls, rules, categories, rulesFile, categoriesFile, memoriesFile,
                       exportFile, now, issued, inserted, onlyCreates, deletes>>

GetMemoryStats == getMemoryStats

\* The arguments export_memories is called with
ExportArgs ==
    { NoArgs, "format" :> "json", ("format" :> "json") @@ ("project" :> SA),
      "format" :> "markdown" }

\* exportMemories(args): the export file holds the selected entries, as JSON
\* or rendered as markdown
exportMemories(args, outcome) ==
    LET memoriesToExport == projectStage(memories, args)
    IN  /\ server = "memory"
        /\ exportFile' = IF outcome # "ok" THEN exportFile
                         ELSE IF formatOf(args) = "json"
                         THEN FileOf(JSONstringify(memoriesToExport, MemoryKeys))
                         ELSE FileOf(markdownOf(memoriesToExport))
        /\ exportedFrom' = IF outcome # "ok" THEN exportedFrom
                           ELSE [exists |-> TRUE, store |-> memories, args |-> args]
        /\ request' = [tool |-> "export_memories", args |-> args]
        /\ response' = IF outcome = "ok" THEN Ok("export_memories", Len(memoriesToExport))
                       ELSE Err("export_memories", "write failed")
        /\ UNCHANGED <<server, loading, saving, runner, calls, rules, categories, rulesFile, categoriesFile, memories,
                       memoriesFile, now, issued, inserted, onlyCreates, deletes>>

ExportMemories == \E args \in ExportArgs, outcome \in MemSaveOutcomes :
    exportMemories(args, outcome)

\* The files import_memories is pointed at: none, or an array of entries, some
\* without an id or a timestamp
ImportEntry(project, tags) ==
    [project |-> project, category |-> Sa, title |-> Sa, content |-> Sab,
     tags |-> tags, context |-> <<>>]

ImportFiles ==
    { NoFile,
      FileOf(JSONstringify(
                << ImportEntry(Sa, <<>>) @@ ("id" :> <<"m", "1">>) @@ ("timestamp" :> 0) >>,
                MemoryKeys)),
      FileOf(JSONstringify(
                << ImportEntry(Sb, <<Sb>>),
                   ImportEntry(Sa, <<>>) @@ ("id" :> <<"m", "2">>) @@ ("timestamp" :> 1) >>,
                MemoryKeys)) }

\* The backfill that stamps every imported entry with the time of the import
backfillMemory_restamps(memory, t, suffix) ==
    [f \in DOMAIN memory \cup {"id", "timestamp"} |->
        IF f = "id"
        THEN IF Truthy(memory, "id") THEN memory.id ELSE generateMemId(t, suffix)
        ELSE IF f = "timestamp" THEN t
        ELSE memory[f]]

\* if (!memory.id) memory.id = this.generateId();
\* if (!memory.timestamp) memory.timestamp = new Date().toISOString();
backfillMemory(memory, t, suffix) ==
    [f \in DOMAIN memory \cup {"id", "timestamp"} |->
        IF f = "id"
        THEN IF Truthy(memory, "id") THEN memory.id ELSE generateMemId(t, suffix)
        ELSE IF f = "timestamp"
        THEN IF Has(memory, "timestamp") THEN memory.timestamp ELSE t
        ELSE memory[f]]

\* importMemories(args)
importMemories(file, format, t, suffixes, outcome) ==
    /\ server = "memory"
    /\ request' = [tool |-> "import_memories", args |-> [file |-> file, format |-> format]]
    /\ UNCHANGED <<server, loading, saving, runner, exportedFrom, calls, rules, categories, rulesFile, categoriesFile,
                   exportFile, issued, onlyCreates, deletes>>
    /\ IF ~file.exists
       THEN /\ response' = Err("import_memories", "File not found")
            /\ UNCHANGED <<memories, memoriesFile, now, inserted>>
       ELSE IF format # "json"
       THEN /\ response' = Err("import_memories", "Markdown import not yet implemented")
            /\ UNCHANGED <<memories, memoriesFile, now, inserted>>
       ELSE IF file.data.syntax # "json"
       THEN \* JSON.parse throws a SyntaxError
            /\ response' = Err("import_memories", "Unexpected token")
            /\ UNCHANGED <<memories, memoriesFile, now, inserted>>
       ELSE LET parsed == JSONparse(file.data)
                importedMemories ==
                    [i \in 1..Len(parsed) |-> backfillMemory(parsed[i], t, suffixes[i])]
                ms == pushAll(memories, importedMemories)
            IN  /\ memories' = ms
                /\ memoriesFile' = saveMemoriesFile(outcome, ms)
                /\ now' = t
                /\ inserted' = inserted \o importedMemories
                /\ response' = saveResponse("import_memories", Len(importedMemories), outcome)

\* The entries of a file, none when it is absent or is not JSON
EntriesOf(file) ==
    IF file.exists /\ file.data.syntax = "json" THEN Len(file.data.value) ELSE 0

ImportMemories ==
    \E file \in ImportFiles, format \in {"json", "markdown"}, t \in Tick,
       suffixes \in [1..MaxStore -> RandomSuffixes], outcome \in MemSaveOutcomes :
        /\ Len(memories) + EntriesOf(file) <= MaxMemories
        /\ importMemories(file, format, t, suffixes, outcome)

\* The memory server after loadMemories() has completed with no memories.json
InitMem ==
    /\ server = "memory"
    /\ memories = <<>>
    /\ memoriesFile = NoFile
    /\ exportFile = NoFile
    /\ rules = <<>>
    /\ categories = <<>>
    /\ rulesFile = NoFile
    /\ categoriesFile = NoFile
    /\ now = 0
    /\ response = [kind |-> "none"]
    /\ request = [tool |-> "none"]
    /\ issued = <<>>
    /\ inserted = <<>>
    /\ onlyCreates = TRUE
    /\ deletes = 0
    /\ calls = 0
    /\ exportedFrom = NoExport
    /\ runner = NoRunner
    /\ loading = Loaded
    /\ saving = NoSaves

NextMem ==
    \/ StoreExperience
    \/ SearchStored
    \/ GetMemoryStats
    \/ ExportMemories
    \/ ImportMemories
    \/ UnknownTool

SpecMem == InitMem /\ [][NextMem]_vars

----------------------------------------------------------------------------
(* Export and import: a server exports its store once, a server is started *)
(* on a storage directory that holds no store file, and the export file is *)
(* imported                                                                *)

\* loadRules() / loadMemories() with the directory present and no rules.json,
\* categories.json or memories.json in it: the store starts empty
StartEmpty ==
    /\ exportFile.exists
    /\ rules # <<>> \/ memories # <<>>
    /\ rules' = <<>>
    /\ categories' = <<>>
    /\ rulesFile' = NoFile
    /\ categoriesFile' = NoFile
    /\ memories' = <<>>
    /\ memoriesFile' = NoFile
    /\ inserted' = <<>>
    /\ request' = [tool |-> "none"]
    /\ response' = [kind |-> "none"]
    /\ UNCHANGED <<server, loading, saving, runner, exportedFrom, calls, exportFile, now, issued,
                   onlyCreates, deletes>>

ExportOnce ==
    /\ ~exportedFrom.exists
    /\ ExportRules \/ ExportMemories

ImportExportedRules ==
    \E format \in Opt("format", {"json", "markdown"}), outcome \in SaveOutcomes :
        /\ Len(rules) + EntriesOf(exportFile) <= MaxStore
        /\ importRules(("filePath" :> exportFile) @@ format, now, outcome)

ImportExportedMemories ==
    \E format \in {"json", "markdown"}, suffixes \in [1..MaxStore -> RandomSuffixes],
       outcome \in MemSaveOutcomes :
        /\ Len(memories) + EntriesOf(exportFile) <= MaxStore
        /\ importMemories(exportFile, format, now, suffixes, outcome)

\* The stores are those the search is applied to
InitRoundTrip == InitSearch

NextRoundTrip ==
    \/ ExportOnce
    \/ StartEmpty
    \/ calls < MaxCalls /\ ImportExportedRules
    \/ ImportExportedMemories

SpecRoundTrip == InitRoundTrip /\ [][NextRoundTrip]_vars

----------------------------------------------------------------------------
(* The git runner's tool handlers (src/unnamed/part_001) *)

\* The ways a handler's git commands can end
ExecOutcomes == {"ok", "fail"}

\* The arguments start_git_runner is called with
StartArgs == {NoArgs, "autoCommit" :> TRUE, ("autoCommit" :> TRUE) @@ ("interval" :> 5)}

\* setInterval(...): the number of the timer it creates
setInterval(timers) == CHOOSE n \in 1..(Cardinality(timers) + 1) : n \notin timers

\* The clearInterval that clears nothing
clearInterval_noop(timers, id) == timers

\* clearInterval(this.intervalId)
clearInterval(timers, id) == timers \ {id}

\* startGitRunner(args)
startGitRunner(args) ==
    /\ server = "git"
    /\ request' = [tool |-> "start_git_runner", args |-> args]
    /\ IF runner.isRunning
       THEN /\ response' = Ok("start_git_runner", "Git Runner is already running")
            /\ UNCHANGED runner
       ELSE LET autoCommit == Has(args, "autoCommit") /\ args.autoCommit
                started == [runner EXCEPT
                              !.isRunning = TRUE,
                              !.autoCommit = autoCommit,
                              !.commitInterval = IF Has(args, "interval") /\ args.interval # 0
                                                 THEN args.interval ELSE 30,
                              !.intervalId = IF autoCommit THEN setInterval(runner.timers)
                                             ELSE @,
                              !.timers = IF autoCommit
                                         THEN @ \cup {setInterval(runner.timers)}
                                         ELSE @]
            IN  /\ runner' = started
                /\ response' = Ok("start_git_runner", started)
    /\ UNCHANGED <<server, loading, saving, exportedFrom, calls, rules, categories, rulesFile, categoriesFile,
                   memories, memoriesFile, exportFile, now, issued, inserted, onlyCreates,
                   deletes>>

StartGitRunner == \E args \in StartArgs : startGitRunner(args)

\* stopGitRunner()
StopGitRunner ==
    /\ server = "git"
    /\ request' = [tool |-> "stop_git_runner", args |-> NoArgs]
    /\ IF ~runner.isRunning
       THEN /\ response' = Ok("stop_git_runner", "Git Runner is not currently running")
            /\ UNCHANGED runner
       ELSE /\ runner' = [runner EXCEPT
                            !.isRunning = FALSE,
                            !.intervalId = 0,
                            !.timers = IF runner.intervalId # 0
                                       THEN clearInterval(@, runner.intervalId) ELSE @]
            /\ response' = Ok("stop_git_runner", "Git Runner stopped successfully")
    /\ UNCHANGED <<server, loading, saving, exportedFrom, calls, rules, categories, rulesFile, categoriesFile,
                   memories, memoriesFile, exportFile, now, issued, inserted, onlyCreates,
                   deletes>>

\* gitCommitWithAI(args): nothing to commit, a commit, or a git command failing
gitCommitWithAI(changes, t, outcome) ==
    /\ server = "git"
    /\ request' = [tool |-> "git_commit_with_ai", args |-> NoArgs]
    /\ IF outcome = "fail"
       THEN /\ response' = Err("git_commit_with_ai", "Failed to commit")
            /\ UNCHANGED <<runner, now>>
       ELSE IF ~changes
       THEN /\ response' = Ok("git_commit_with_ai", "No changes to commit")
            /\ UNCHANGED <<runner, now>>
       ELSE /\ runner' = [runner EXCEPT !.lastCommit = <<t>>]
            /\ now' = t
            /\ response' = Ok("git_commit_with_ai", "Commit successful!")
    /\ UNCHANGED <<server, loading, saving, exportedFrom, calls, rules, categories, rulesFile, categoriesFile,
                   memories, memoriesFile, exportFile, issued, inserted, onlyCreates,
                   deletes>>

GitCommitWithAI == \E changes \in BOOLEAN, t \in Tick, outcome \in ExecOutcomes :
    gitCommitWithAI(changes, t, outcome)

\* gitPush(args)
gitPush(args, outcome) ==
    /\ server = "git"
    /\ request' = [tool |-> "git_push", args |-> args]
    /\ response' = IF outcome = "ok" THEN Ok("git_push", "Push successful!")
                   ELSE Err("git_push", "Failed to push")
    /\ UNCHANGED <<server, loading, saving, runner, exportedFrom, calls, rules, categories, rulesFile,
                   categoriesFile, memories, memoriesFile, exportFile, now, issued,
                   inserted, onlyCreates, deletes>>

GitPush == \E args \in Opt("force", {TRUE}), outcome \in ExecOutcomes : gitPush(args, outcome)

\* getGitStatus()
getGitStatus(outcome) ==
    /\ server = "git"
    /\ request' = [tool |-> "get_git_status", args |-> NoArgs]
    /\ response' = IF outcome = "ok" THEN Ok("get_git_status", "Git Repository Status")
                   ELSE Err("get_git_status", "Failed to get git status")
    /\ UNCHANGED <<server, loading, saving, runner, exportedFrom, calls, rules, categories, rulesFile,
                   categoriesFile, memories, memoriesFile, exportFile, now, issued,
                   inserted, onlyCreates, deletes>>

GetGitStatus == \E outcome \in ExecOutcomes : getGitStatus(outcome)

\* getRunnerStatus()
GetRunnerStatus ==
    /\ server = "git"
    /\ request' = [tool |-> "get_runner_status", args |-> NoArgs]
    /\ response' = Ok("get_runner_status", runner)
    /\ UNCHANGED <<server, loading, saving, runner, exportedFrom, calls, rules, categories, rulesFile,
                   categoriesFile, memories, memoriesFile, exportFile, now, issued,
                   inserted, onlyCreates, deletes>>

\* The git runner after its constructor
InitGit ==
    /\ server = "git"
    /\ runner = NoRunner
    /\ loading = Loaded
    /\ saving = NoSaves
    /\ rules = <<>>
    /\ categories = <<>>
    /\ rulesFile = NoFile
    /\ categoriesFile = NoFile
    /\ memories = <<>>
    /\ memoriesFile = NoFile
    /\ exportFile = NoFile
    /\ now = 0
    /\ response = [kind |-> "none"]
    /\ request = [tool |-> "none"]
    /\ issued = <<>>
    /\ inserted = <<>>
    /\ onlyCreates = TRUE
    /\ deletes = 0
    /\ calls = 0
    /\ exportedFrom = NoExport

\* The interval timer fires and its callback calls autoCommitIfChanges(),
\* which awaits "git status --porcelain"
TimerFires ==
    /\ server = "git"
    /\ runner.timers # {}
    /\ runner.tick = "idle"
    /\ runner.autoCommits < MaxAutoCommits
    /\ runner' = [runner EXCEPT !.tick = "status"]
    /\ UNCHANGED <<server, loading, saving, exportedFrom, calls, rules, categories, rulesFile,
                   categoriesFile, memories, memoriesFile, exportFile, now, issued,
                   inserted, onlyCreates, deletes, request, response>>

\* autoCommitIfChanges(): "git status" returns; with changes it calls
\* gitCommitWithAI(), without changes or on a failure the callback ends
TickStatus ==
    /\ runner.tick = "status"
    /\ \E changes \in BOOLEAN, outcome \in ExecOutcomes :
        runner' = [runner EXCEPT !.tick = IF outcome = "ok" /\ changes THEN "commit"
                                          ELSE "idle"]
    /\ UNCHANGED <<server, loading, saving, exportedFrom, calls, rules, categories, rulesFile,
                   categoriesFile, memories, memoriesFile, exportFile, now, issued,
                   inserted, onlyCreates, deletes, request, response>>

\* gitCommitWithAI() called by the timer callback: its git commands return;
\* after "git commit" it sets lastCommit, and a failure is caught and logged
TickCommit ==
    /\ runner.tick = "commit"
    /\ \E changes \in BOOLEAN, t \in Tick, outcome \in ExecOutcomes :
        IF outcome = "ok" /\ changes
        THEN /\ runner' = [runner EXCEPT !.tick = "idle", !.lastCommit = <<t>>,
                                         !.autoCommits = @ + 1]
             /\ now' = t
        ELSE /\ runner' = [runner EXCEPT !.tick = "idle"]
             /\ UNCHANGED now
    /\ UNCHANGED <<server, loading, saving, exportedFrom, calls, rules, categories, rulesFile,
                   categoriesFile, memories, memoriesFile, exportFile, issued,
                   inserted, onlyCreates, deletes, request, response>>

NextGit ==
    \/ StartGitRunner
    \/ StopGitRunner
    \/ GitCommitWithAI
    \/ GitPush
    \/ GetGitStatus
    \/ GetRunnerStatus
    \/ UnknownTool

\* The git runner serving its runner tools while its interval timer fires
NextRunner ==
    \/ StartGitRunner
    \/ StopGitRunner
    \/ GitCommitWithAI
    \/ GetRunnerStatus
    \/ TimerFires
    \/ TickStatus
    \/ TickCommit

SpecRunner == InitGit /\ [][NextRunner]_vars

----------------------------------------------------------------------------
(* The three servers, each a process of its own serving its tools *)

InitServers == InitRules \/ InitMem \/ InitGit

NextServers == NextRulesAll \/ NextMem \/ NextGit

SpecServers == InitServers /\ [][NextServers]_vars

----------------------------------------------------------------------------
(* The initial load: loadRules() (index.ts 289-313) and loadMemories()     *)
(* (part_002 229-244), one step per await.  The files are rulesFile,       *)
(* categoriesFile and memoriesFile; loading.dir says whether the storage   *)
(* directory exists; loading.disk is the directory and the files as they   *)
(* were when the load started.                                             *)

\* A store file whose text JSON.parse rejects
Malformed == [exists |-> TRUE, malformed |-> TRUE]
Parses(file) == Has(file, "data")

\* The ways an await of mkdir, readFile or writeFile can end
IoOutcomes == {"ok", "fail"}

\* The catch block that lets the error escape
caught_rethrows(l) == [l EXCEPT !.pc = "rejected"]

\* } catch (error) { console.error(...); this.rules = []; ... }: the load ends
caught(l) == [l EXCEPT !.pc = "done"]

\* The store the catch block leaves
resetStore(store) == <<>>

\* The catch block of loadRules / loadMemories
LoadCatch ==
    /\ loading' = caught(loading)
    /\ IF server = "rules"
       THEN /\ rules' = resetStore(rules)
            /\ categories' = resetStore(categories)
            /\ UNCHANGED memories
       ELSE /\ memories' = resetStore(memories)
            /\ UNCHANGED <<rules, categories>>

\* if (existsSync(categoriesFile)) ...: the file is read when it exists, and
\* the load is over when it does not
toCategories(l) ==
    IF categoriesFile.exists THEN [l EXCEPT !.pc = "readCategories"]
    ELSE [l EXCEPT !.pc = "done"]

\* if (existsSync(rulesFile)) ... / if (existsSync(memoriesFile)) ...
toFiles(l) ==
    IF server = "rules"
    THEN IF rulesFile.exists THEN [l EXCEPT !.pc = "readRules"] ELSE toCategories(l)
    ELSE IF memoriesFile.exists THEN [l EXCEPT !.pc = "readMemories"]
         ELSE [l EXCEPT !.pc = "done"]

LoadFrame ==
    UNCHANGED <<server, saving, runner, exportedFrom, calls, exportFile, now, issued,
                inserted, onlyCreates, deletes, request, response>>

\* The synchronous start of the load, run by the constructor: with the
\* directory missing it awaits mkdir, otherwise it goes on to the files
LoadStart ==
    /\ loading.pc = "start"
    /\ loading' = IF ~loading.dir THEN [loading EXCEPT !.pc = "mkdir"]
                  ELSE toFiles(loading)
    /\ UNCHANGED <<rules, categories, memories, rulesFile, categoriesFile, memoriesFile>>
    /\ LoadFrame

\* await mkdir(...) returns.  The rules server goes on, without a further
\* await, into initializeDefaultRules() up to the first writeFile of saveRules()
LoadMkdir ==
    /\ loading.pc = "mkdir"
    /\ \E outcome \in IoOutcomes :
        IF outcome = "fail"
        THEN LoadCatch
        ELSE IF server = "rules"
        THEN /\ rules' = defaultRules(now)
             /\ categories' = seededCategories(defaultRules(now))
             /\ loading' = [loading EXCEPT !.pc = "seedRules", !.dir = TRUE,
                                           !.text = FileOf(defaultRules(now))]
             /\ UNCHANGED memories
        ELSE /\ loading' = toFiles([loading EXCEPT !.dir = TRUE])
             /\ UNCHANGED <<rules, categories, memories>>
    /\ UNCHANGED <<rulesFile, categoriesFile, memoriesFile>>
    /\ LoadFrame

\* await writeFile(rulesFile, ...) of the seeding save returns; the text of
\* categories.json is made from this.categories now
LoadSeedRules ==
    /\ loading.pc = "seedRules"
    /\ \E outcome \in IoOutcomes :
        IF outcome = "fail"
        THEN /\ LoadCatch
             /\ UNCHANGED rulesFile
        ELSE /\ rulesFile' = loading.text
             /\ loading' = [loading EXCEPT !.pc = "seedCategories",
                                           !.text = FileOf(categories)]
             /\ UNCHANGED <<rules, categories, memories>>
    /\ UNCHANGED <<categoriesFile, memoriesFile>>
    /\ LoadFrame

\* await writeFile(categoriesFile, ...) returns, saveRules() and
\* initializeDefaultRules() return, and the load goes on to the files
LoadSeedCategories ==
    /\ loading.pc = "seedCategories"
    /\ \E outcome \in IoOutcomes :
        IF outcome = "fail"
        THEN /\ LoadCatch
             /\ UNCHANGED categoriesFile
        ELSE /\ categoriesFile' = loading.text
             /\ loading' = IF rulesFile.exists THEN [loading EXCEPT !.pc = "readRules"]
                           ELSE [loading EXCEPT !.pc = "readCategories"]
             /\ UNCHANGED <<rules, categories, memories>>
    /\ UNCHANGED <<rulesFile, memoriesFile>>
    /\ LoadFrame

\* readFile(...) takes the text of the file, or fails
LoadRead ==
    /\ loading.pc \in {"readRules", "readCategories", "readMemories"}
    /\ \E outcome \in IoOutcomes :
        IF outcome = "fail"
        THEN LoadCatch
        ELSE /\ loading' =
                    [loading EXCEPT
                        !.pc = IF @ = "readRules" THEN "parseRules"
                               ELSE IF @ = "readCategories" THEN "parseCategories"
                               ELSE "parseMemories",
                        !.text = IF loading.pc = "readRules" THEN rulesFile
                                 ELSE IF loading.pc = "readCategories" THEN categoriesFile
                                 ELSE memoriesFile]
             /\ UNCHANGED <<rules, categories, memories>>
    /\ UNCHANGED <<rulesFile, categoriesFile, memoriesFile>>
    /\ LoadFrame

\* await readFile(...) returns and JSON.parse is applied: the store is
\* replaced by what the text holds, or the catch block runs
LoadParse ==
    /\ loading.pc \in {"parseRules", "parseCategories", "parseMemories"}
    /\ IF ~Parses(loading.text)
       THEN LoadCatch
       ELSE IF loading.pc = "parseRules"
       THEN /\ rules' = loading.text.data
            /\ loading' = toCategories(loading)
            /\ UNCHANGED <<categories, memories>>
       ELSE IF loading.pc = "parseCategories"
       THEN /\ categories' = loading.text.data
            /\ loading' = [loading EXCEPT !.pc = "done"]
            /\ UNCHANGED <<rules, memories>>
       ELSE /\ memories' = loading.text.data
            /\ loading' = [loading EXCEPT !.pc = "done"]
            /\ UNCHANGED <<rules, categories>>
    /\ UNCHANGED <<rulesFile, categoriesFile, memoriesFile>>
    /\ LoadFrame

\* The store files a server can be started on: none, a file that is not
\* JSON, and the files of a store
RulesFilesAtStart ==
    {NoFile, Malformed, FileOf(<<>>), FileOf(defaultRules(0))}
CategoriesFilesAtStart ==
    {NoFile, Malformed, FileOf(<<>>), FileOf(seededCategories(defaultRules(0)))}
MemoriesFilesAtStart ==
    {NoFile, Malformed, FileOf(<<>>), FileOf(<< ImportEntry(Sa, <<>>) @@ ("id" :> <<"m", "1">>) @@ ("timestamp" :> 0) >>)}

\* The constructor has built the server and is about to call loadRules() /
\* loadMemories(); a directory that does not exist holds no file
InitLoad ==
    /\ server \in {"rules", "memory"}
    /\ rules = <<>>
    /\ categories = <<>>
    /\ memories = <<>>
    /\ \E dir \in BOOLEAN :
        /\ rulesFile \in IF dir /\ server = "rules" THEN RulesFilesAtStart ELSE {NoFile}
        /\ categoriesFile \in IF dir /\ server = "rules" THEN CategoriesFilesAtStart
                              ELSE {NoFile}
        /\ memoriesFile \in IF dir /\ server = "memory" THEN MemoriesFilesAtStart
                            ELSE {NoFile}
        /\ loading = [pc |-> "start", dir |-> dir, text |-> NoFile,
                      disk |-> [dir |-> dir, rulesFile |-> rulesFile,
                                categoriesFile |-> categoriesFile,
                                memoriesFile |-> memoriesFile]]
    /\ exportFile = NoFile
    /\ now = 0
    /\ response = [kind |-> "none"]
    /\ request = [tool |-> "none"]
    /\ issued = <<>>
    /\ inserted = <<>>
    /\ onlyCreates = TRUE
    /\ deletes = 0
    /\ calls = 0
    /\ exportedFrom = NoExport
    /\ runner = NoRunner
    /\ saving = NoSaves

NextLoad ==
    \/ LoadStart
    \/ LoadMkdir
    \/ LoadSeedRules
    \/ LoadSeedCategories
    \/ LoadRead
    \/ LoadParse

SpecLoad == InitLoad /\ [][NextLoad]_vars

\* The server from its construction on: run() connects the transport right
\* after the constructor started the load, so requests are served while the
\* load is awaiting mkdir, readFile or writeFile
Connected == loading.pc # "start"

NextStartup ==
    \/ LoadStart
    \/ LoadMkdir
    \/ LoadSeedRules
    \/ LoadSeedCategories
    \/ LoadRead
    \/ LoadParse
    \/ Connected /\ calls < MaxCalls /\ CreateRule
    \/ Connected /\ calls < MaxCalls /\ DeleteRule
    \/ Connected /\ StoreExperience

SpecStartup == InitLoad /\ [][NextStartup]_vars

----------------------------------------------------------------------------
(* create_rule calls that overlap: createRule() runs from its start to the *)
(* first await of saveRules() without interruption, and another request    *)
(* can be served while it awaits writeFile.  saving holds the calls that   *)
(* are awaiting, each with the file it is writing and the text it wrote.   *)

\* createRule(args) up to await writeFile(rulesFile, JSON.stringify(this.rules))
beginCreateRule(args, t) ==
    LET rule == newRule(args, rules, t)
        rs == Append(rules, rule)
        cs == pushRuleId(ensureCategory(categories, args.category), args.category, rule.id)
    IN  /\ server = "rules"
        /\ Has(args, "category")
        /\ Len(issued) < MaxCreates
        /\ rules' = rs
        /\ categories' = cs
        /\ now' = t
        /\ calls' = calls + 1
        /\ issued' = Append(issued, [id |-> rule.id, category |-> rule.category])
        /\ saving' = Append(saving, [id |-> rule.id, file |-> "rules", text |-> FileOf(rs)])
        /\ request' = [tool |-> "create_rule", args |-> args]
        /\ UNCHANGED <<server, loading, runner, exportedFrom, memories, memoriesFile,
                       exportFile, inserted, onlyCreates, deletes, rulesFile,
                       categoriesFile, response>>

BeginCreateRule == \E args \in CreateArgs, t \in Tick : beginCreateRule(args, t)

\* await writeFile(rulesFile, ...) returns in the i-th waiting call: the file
\* holds the text that call wrote, and the call writes categories.json with
\* the text made from this.categories now; a failed write ends the call
RulesWritten ==
    \E i \in 1..Len(saving), outcome \in IoOutcomes :
        /\ saving[i].file = "rules"
        /\ IF outcome = "fail"
           THEN /\ saving' = RemoveAt(saving, i)
                /\ response' = Err("create_rule", "Failed to save")
                /\ UNCHANGED rulesFile
           ELSE /\ rulesFile' = saving[i].text
                /\ saving' = [saving EXCEPT ![i].file = "categories",
                                            ![i].text = FileOf(categories)]
                /\ UNCHANGED response
        /\ UNCHANGED <<server, loading, runner, exportedFrom, calls, rules, categories,
                       categoriesFile, memories, memoriesFile, exportFile, now, issued,
                       inserted, onlyCreates, deletes, request>>

\* await writeFile(categoriesFile, ...) returns in the i-th waiting call, and
\* the call answers
CategoriesWritten ==
    \E i \in 1..Len(saving), outcome \in IoOutcomes :
        /\ saving[i].file = "categories"
        /\ saving' = RemoveAt(saving, i)
        /\ categoriesFile' = IF outcome = "ok" THEN saving[i].text ELSE categoriesFile
        /\ response' = IF outcome = "ok" THEN Ok("create_rule", saving[i].id)
                       ELSE Err("create_rule", "Failed to save")
        /\ UNCHANGED <<server, loading, runner, exportedFrom, calls, rules, categories,
                       rulesFile, memories, memoriesFile, exportFile, now, issued,
                       inserted, onlyCreates, deletes, request>>

NextOverlap ==
    \/ calls < MaxCalls /\ BeginCreateRule
    \/ RulesWritten
    \/ CategoriesWritten

SpecOverlap == InitRules /\ [][NextOverlap]_vars

----------------------------------------------------------------------------
(* Claims about the identity allocator (checked under SpecRules) *)

IdsOf(rs) == [i \in 1..Len(rs) |-> rs[i].id]
Distinct(seq) == \A i, j \in 1..Len(seq) : i # j => seq[i] # seq[j]

\* Only create_rule was called, starting from the empty store
CreatesFromEmpty == onlyCreates /\ Len(rules) = Len(issued)

\* C1: after any sequence of create_rule calls from the empty store, with any
\* category names, no two rules of the store share an id.
C1_CreatedIdsDistinct == CreatesFromEmpty => Distinct(IdsOf(rules))

\* C2: an id that create_rule issued to a rule of a category is never issued
\* again to a later rule of that category, also after the first was deleted.
C2_IssuedIdNeverReissued ==
    \A i, j \in 1..Len(issued) :
        (i # j /\ issued[i].category = issued[j].category) => issued[i].id # issued[j].id

----------------------------------------------------------------------------
(* Claims about search (checked under SpecSearch) *)

IsSearch == request.tool \in {"search_rules", "search_memories"}
Completed == IsSearch /\ response.kind = "ok"
Query == request.args.query
Results == response.payload

\* The filter stage's output for the request's filters
Filtered ==
    IF server = "rules" THEN filterRules(rules, request.args)
    ELSE filterMemories(memories, request.args)

\* What the tags stage of the filter is applied to
BeforeTagsStage ==
    IF server = "rules" THEN categoryStage(rules, request.args)
    ELSE categoryStage(projectStage(memories, request.args), request.args)

RecordOf(result) == IF server = "rules" THEN result.rule ELSE result.entry

ScoreOf(record) ==
    IF server = "rules" THEN calculateSimilarity(Query, record)
    ELSE calculateSimilarityMem(Query, record)

\* C3 (as stated): search returns at most limit entries, for every integer
\* limit, each a member of the filter stage's output.
C3_AtMostLimitAnyInteger ==
    Completed =>
        /\ Len(Results) <= limitOf(request.args)
        /\ \A i \in 1..Len(Results) : RecordOf(Results[i]) \in Elems(Filtered)

\* C3 (amended): for a limit that is not negative, search returns at most limit
\* entries; for every limit, each returned record is a member of the filter
\* stage's output.
C3_AtMostLimit ==
    Completed =>
        /\ limitOf(request.args) >= 0 => Len(Results) <= limitOf(request.args)
        /\ \A i \in 1..Len(Results) : RecordOf(Results[i]) \in Elems(Filtered)

\* C3 witness: a search cut to its limit, of a store the filters narrowed
C3_Witness ==
    /\ Completed
    /\ limitOf(request.args) > 0
    /\ Len(Results) = limitOf(request.args)
    /\ Len(positiveOnly([i \in 1..Len(Filtered) |->
            [similarity |-> ScoreOf(Filtered[i])]])) > limitOf(request.args)
    /\ Len(Filtered) < Len(IF server = "rules" THEN rules ELSE memories)

\* C4: search never returns a record whose computed score is 0 or less; the
\* score it reports for a record is the scorer's.
C4_NoNonPositiveScore ==
    Completed =>
        \A i \in 1..Len(Results) :
            /\ Results[i].similarity > 0
            /\ Results[i].similarity = ScoreOf(RecordOf(Results[i]))

\* C4 witness: a search that returned something and left out a filtered
\* record scoring 0
C4_Witness ==
    /\ Completed
    /\ Results # <<>>
    /\ \E i \in 1..Len(Filtered) : ScoreOf(Filtered[i]) = 0

\* The entries of the filter stage's output that score s, and those returned
FilteredScoring(s) == FilterSeq(Filtered, LAMBDA r : ScoreOf(r) = s)
ReturnedScoring(s) ==
    LET hit == FilterSeq(Results, LAMBDA x : x.similarity = s)
    IN  [i \in 1..Len(hit) |-> RecordOf(hit[i])]

IsPrefix(p, seq) == Len(p) <= Len(seq) /\ SubSeq(seq, 1, Len(p)) = p

\* C5: the returned entries are in non-increasing order of score, and entries
\* with equal scores keep the relative order of the filter stage's output.
C5_SortedStable ==
    Completed =>
        /\ \A i \in 1..(Len(Results) - 1) :
                Results[i].similarity >= Results[i + 1].similarity
        /\ \A i \in 1..Len(Results) :
                IsPrefix(ReturnedScoring(Results[i].similarity),
                         FilteredScoring(Results[i].similarity))

\* C5 witness: a search that had to reorder (a lower-scoring record precedes
\* a higher one in the filter output) and returned two different records
\* that tie
C5_Witness ==
    /\ Completed
    /\ \E i, j \in 1..Len(Results) :
            /\ i < j
            /\ Results[i].similarity = Results[j].similarity
            /\ RecordOf(Results[i]) # RecordOf(Results[j])
    /\ \E p, q \in 1..Len(Filtered) :
            p < q /\ 0 < ScoreOf(Filtered[p]) /\ ScoreOf(Filtered[p]) < ScoreOf(Filtered[q])

\* C6: a query that is not a valid match pattern does not abort the search: no
\* error is returned.
C6_InvalidPatternSearchCompletes ==
    (IsSearch /\ similarityThrows(Query)) => response.kind = "ok"

\* C7: for every record the scorer is run on whose title contains the query
\* (case-insensitively), the scorer yields a score of at least 50.
C7_TitleMatchAtLeast50 ==
    IsSearch =>
        \A i \in 1..Len(Filtered) :
            includes(toLowerCase(Filtered[i].title), toLowerCase(Query)) =>
                /\ ~similarityThrows(Query)
                /\ ScoreOf(Filtered[i]) >= 50

\* C7, for the queries that compile as a pattern (this much holds of the code)
C7_HoldsWhenPatternCompiles ==
    (IsSearch /\ ~similarityThrows(Query)) =>
        \A i \in 1..Len(Filtered) :
            includes(toLowerCase(Filtered[i].title), toLowerCase(Query)) =>
                ScoreOf(Filtered[i]) >= 50

\* The weighted signals of the claim, one by one.  The content signal counts
\* the matches of the query used as the pattern, none when it is no pattern.
Signal(holds, weight) == IF holds THEN weight ELSE 0
ContentOccurrences(content, q) ==
    IF RegExpCompiles(q) THEN matchCount(toLowerCase(content), q) ELSE 0
TagSignalCount(tags, q) ==
    Cardinality({i \in 1..Len(tags) :
        includes(toLowerCase(tags[i]), q) \/ includes(q, toLowerCase(tags[i]))})
ExamplesCount(examples, q) ==
    Cardinality({i \in 1..Len(examples) : includes(toLowerCase(examples[i]), q)})

WeightedSum(record) ==
    LET q == toLowerCase(Query)
    IN  IF server = "rules"
        THEN Signal(includes(toLowerCase(record.title), q), 50)
             + 15 * ContentOccurrences(record.content, q)
             + 40 * TagSignalCount(record.tags, q)
             + Signal(includes(toLowerCase(record.category), q), 30)
             + Signal(includes(toLowerCase(record.description), q), 25)
             + 10 * ExamplesCount(record.examples, q)
        ELSE Signal(includes(toLowerCase(record.title), q), 50)
             + 20 * ContentOccurrences(record.content, q)
             + 30 * TagSignalCount(record.tags, q)
             + Signal(includes(toLowerCase(record.category), q), 25)
             + Signal(includes(toLowerCase(joinSpace(contextValues(record.context))), q), 25)

\* C8: the score of every record the scorer is run on is the non-negative
\* integer that is the uncapped sum of the weighted signals.
C8_ScoreIsWeightedSum ==
    IsSearch =>
        \A i \in 1..Len(Filtered) :
            /\ ~similarityThrows(Query)
            /\ ScoreOf(Filtered[i]) = WeightedSum(Filtered[i])
            /\ ScoreOf(Filtered[i]) \in Nat

\* C8, for the queries that compile as a pattern (this much holds of the code)
C8_HoldsWhenPatternCompiles ==
    (IsSearch /\ ~similarityThrows(Query)) =>
        \A i \in 1..Len(Filtered) :
            /\ ScoreOf(Filtered[i]) = WeightedSum(Filtered[i])
            /\ ScoreOf(Filtered[i]) \in Nat

\* A tags filter was supplied (a list that is not empty)
TagsFilterOn == IsSearch /\ Has(request.args, "tags") /\ Len(request.args.tags) > 0

RequestedInRecordTag(record) ==
    \E t \in Elems(request.args.tags) : \E rt \in Elems(record.tags) :
        includes(toLowerCase(rt), toLowerCase(t))

RecordTagInRequested(record) ==
    \E t \in Elems(request.args.tags) : \E rt \in Elems(record.tags) :
        includes(toLowerCase(t), toLowerCase(rt))

\* C9 (as stated): the tags filter keeps a record if and only if a requested
\* tag is a case-insensitive substring of a tag of the record, or a tag of the
\* record is one of a requested tag.
C9_TagsFilterEitherDirection ==
    TagsFilterOn =>
        \A i \in 1..Len(BeforeTagsStage) :
            (BeforeTagsStage[i] \in Elems(Filtered))
                <=> (\/ RequestedInRecordTag(BeforeTagsStage[i])
                     \/ RecordTagInRequested(BeforeTagsStage[i]))

\* C9 (amended): the tags filter keeps a record if and only if a requested tag
\* is a case-insensitive substring of a tag of the record.
C9_TagsFilterRequestedInRecord ==
    TagsFilterOn =>
        \A i \in 1..Len(BeforeTagsStage) :
            (BeforeTagsStage[i] \in Elems(Filtered))
                <=> RequestedInRecordTag(BeforeTagsStage[i])

\* C9 witness: a tags filter that kept a record and dropped one whose tag is
\* contained in a requested tag
C9_Witness ==
    /\ TagsFilterOn
    /\ Filtered # <<>>
    /\ \E i \in 1..Len(BeforeTagsStage) :
            /\ BeforeTagsStage[i] \notin Elems(Filtered)
            /\ RecordTagInRequested(BeforeTagsStage[i])

----------------------------------------------------------------------------
(* Claims about the memory store (checked under SpecMem) *)

\* The record satisfies every filter the arguments supply
PassesFilters(m, args) ==
    /\ Truthy(args, "project") =>
            includes(toLowerCase(m.project), toLowerCase(args.project))
    /\ Truthy(args, "category") =>
            includes(toLowerCase(m.category), toLowerCase(args.category))
    /\ (Has(args, "tags") /\ args.tags # <<>>) =>
            \E t \in Elems(args.tags) : \E mt \in Elems(m.tags) :
                includes(toLowerCase(mt), toLowerCase(t))

\* C10: after any sequence of tool calls, the filter stage yields exactly the
\* records that satisfy all supplied filters, in the order in which they were
\* inserted into the store.
C10_FilterKeepsInsertionOrder ==
    \A args \in StoredSearchArgs :
        filterMemories(memories, args)
            = FilterSeq(inserted, LAMBDA m : PassesFilters(m, args))

----------------------------------------------------------------------------
(* Claims about the category index (checked under SpecRulesAll and        *)
(* SpecRulesEdit)                                                          *)

CategoryNames == {categories[k].name : k \in 1..Len(categories)}

\* C11: after any sequence of create_rule, update_rule, delete_rule,
\* import_rules and create_category calls, every rule in the store has a
\* category that is the name of an entry of the category index.
C11_RuleCategoriesIndexed ==
    \A i \in 1..Len(rules) : rules[i].category \in CategoryNames

\* C11, its second half (this much holds of the code): an entry that
\* create_rule or import_rules adds to the category index for a category a
\* record names first has the description "Rules for <category>" and the
\* record's id as a member.
C11_ImplicitCategoryDefaultDescription ==
    [][request'.tool \in {"create_rule", "import_rules"} =>
          \A k \in (Len(categories) + 1)..Len(categories') :
              /\ categories'[k].description = RulesFor(categories'[k].name)
              /\ \E i \in 1..Len(rules') :
                    /\ rules'[i].category = categories'[k].name
                    /\ rules'[i].id \in Elems(categories'[k].rules)]_vars

\* C12: after delete_rule(id) succeeds, following any sequence of create_rule
\* and update_rule calls, the deleted id appears in no category's member list.
C12_DeletedIdInNoMemberList ==
    (request.tool = "delete_rule" /\ response.kind = "ok") =>
        \A k \in 1..Len(categories) : request.args.id \notin Elems(categories[k].rules)

----------------------------------------------------------------------------
(* Claims about persistence (checked under SpecServers) *)

RuleMutators ==
    {"create_rule", "update_rule", "delete_rule", "create_category", "import_rules"}
MemoryMutators == {"store_experience", "import_memories"}

\* The save of the last call failed: the handler's error is saveRules()'s or
\* saveMemories()'s
SaveFailed(resp) == resp.kind = "error" /\ resp.payload = "Failed to save"

\* C13: after every successful mutating operation, with requests processed
\* one at a time after the initial load, the backing file holds the
\* serialization of the whole in-memory collection: rules.json the rules and
\* categories.json the category index, memories.json the memories.
C13_FilesHoldTheStoreAfterSuccess ==
    /\ (request.tool \in RuleMutators /\ response.kind = "ok") =>
            /\ rulesFile = FileOf(rules)
            /\ categoriesFile = FileOf(categories)
    /\ (request.tool \in MemoryMutators /\ response.kind = "ok") =>
            memoriesFile = FileOf(memories)

\* C13 witness: an update_rule or a delete_rule succeeded as the second call
\* that changed the store, the store still holds a rule, and both files hold
\* the store
C13_Witness ==
    /\ request.tool \in {"update_rule", "delete_rule"}
    /\ response.kind = "ok"
    /\ calls = 2
    /\ rules # <<>>
    /\ rulesFile = FileOf(rules)
    /\ categoriesFile = FileOf(categories)

\* What the failed call did to the rules server's memory
RuleMutationKept ==
    LET args == request'.args
        tool == request'.tool
    IN  CASE tool = "create_rule" ->
               /\ Len(rules') = Len(rules) + 1
               /\ SubSeq(rules', 1, Len(rules)) = rules
               /\ rules'[Len(rules')].category = args.category
               /\ rules'[Len(rules')] \in Elems(rulesOfCategory(rules', args.category))
               /\ findIndexById(rules', rules'[Len(rules')].id) # 0
          [] tool = "update_rule" ->
               LET k == findIndexById(rules, args.id)
               IN  /\ Len(rules') = Len(rules)
                   /\ \A f \in DOMAIN args \ {"id"} : rules'[k][f] = args[f]
          [] tool = "delete_rule" ->
               rules' = RemoveAt(rules, findIndexById(rules, args.id))
          [] tool = "import_rules" ->
               /\ Len(rules') = Len(rules) + EntriesOf(args.filePath)
               /\ SubSeq(rules', 1, Len(rules)) = rules
          [] tool = "create_category" ->
               /\ Len(categories') = Len(categories) + 1
               /\ categories'[Len(categories')].name = args.name
          [] OTHER -> FALSE

\* What the failed call did to the memory server's memory
MemoryMutationKept ==
    LET args == request'.args
        tool == request'.tool
    IN  CASE tool = "store_experience" ->
               /\ Len(memories') = Len(memories) + 1
               /\ SubSeq(memories', 1, Len(memories)) = memories
               /\ memories'[Len(memories')].content = args.content
          [] tool = "import_memories" ->
               /\ Len(memories') = Len(memories) + EntriesOf(args.file)
               /\ SubSeq(memories', 1, Len(memories)) = memories
          [] OTHER -> FALSE

\* C14: when save() fails during a mutating operation, the caller receives an
\* error response (a call that changed the store and left a file behind the
\* store answers with an error), and the in-memory mutation is kept: the
\* created or updated record is in the store that later get and search calls
\* read, and a deleted record is gone from it.
C14_SaveFailureReportedMutationKept ==
    [][/\ ( /\ request'.tool \in RuleMutators
            /\ <<rules, categories>>' # <<rules, categories>>
            /\ rulesFile' # FileOf(rules') \/ categoriesFile' # FileOf(categories') )
          => response'.kind = "error"
       /\ ( /\ request'.tool \in MemoryMutators
            /\ memories' # memories
            /\ memoriesFile' # FileOf(memories') )
          => response'.kind = "error"
       /\ (server = "rules" /\ SaveFailed(response')) => RuleMutationKept
       /\ (server = "memory" /\ SaveFailed(response')) => MemoryMutationKept]_vars

\* C14 witness: create_rule answered with the save's error, the rule is in the
\* store and rules.json does not hold the store
C14_Witness ==
    /\ request.tool = "create_rule"
    /\ SaveFailed(response)
    /\ rules # <<>>
    /\ rules[Len(rules)].category = request.args.category
    /\ rulesFile # FileOf(rules)

----------------------------------------------------------------------------
(* Claims about the error envelope and validation (checked under          *)
(* SpecServers)                                                            *)

\* The failures a handler can raise
HandlerFailures ==
    { "Unknown tool", "Rule not found", "Category already exists", "File not found",
      "Markdown import not yet implemented", "Unexpected token", "Failed to save",
      "write failed", "Cannot read properties of undefined",
      "Invalid regular expression", "Failed to commit", "Failed to push",
      "Failed to get git status" }

\* C15: every tool invocation, for any tool name (an unknown one too) and any
\* failure raised inside its handler, ends with a response: the handler's
\* result, or the text "Error: <message>" of the failure; no failure leaves
\* the request handler, and the server takes the next invocation.
C15_EveryInvocationAnswered ==
    request.tool # "none" =>
        /\ response.kind \in {"ok", "error"}
        /\ response.tool = request.tool
        /\ response.kind = "error" => response.payload \in HandlerFailures
        /\ request.tool = "no_such_tool" => response = Err("no_such_tool", "Unknown tool")
        /\ ENABLED UnknownTool

\* C15 witness: a server that has served a mutating call answers a failure of
\* a later handler with an error response
C15_Witness ==
    /\ response.kind = "error"
    /\ request.tool \in {"no_such_tool", "delete_rule", "import_memories", "git_push"}
    /\ rules # <<>> \/ memories # <<>> \/ runner.isRunning

\* The fields the tool schemas require of create_rule and store_experience
RuleRequired == {"title", "category", "content"}
MemoryRequired == {"project", "category", "title", "content"}

\* C16: create_rule and store_experience called with a required field missing
\* return a validation error and leave the store and the backing file
\* unchanged.
C16_MissingFieldRejected ==
    [][/\ ( /\ request'.tool = "create_rule"
            /\ ~(RuleRequired \subseteq DOMAIN request'.args) )
          => /\ response'.kind = "error"
             /\ UNCHANGED <<rules, categories, rulesFile, categoriesFile>>
       /\ ( /\ request'.tool = "store_experience"
            /\ ~(MemoryRequired \subseteq DOMAIN request'.args) )
          => /\ response'.kind = "error"
             /\ UNCHANGED <<memories, memoriesFile>>]_vars

----------------------------------------------------------------------------
(* Claims about get, update and listing (checked under SpecRulesAll) *)

\* No rule of the store has this id
NotInStore(id) == \A i \in 1..Len(rules) : rules[i].id # id

\* C17: get_rule_by_id, update_rule and delete_rule called with an id that is
\* not in the store return a "Rule not found" error and leave the rules, the
\* category index and the backing files unchanged.
C17_UnknownIdNotFound ==
    [][( /\ request'.tool \in {"get_rule_by_id", "update_rule", "delete_rule"}
         /\ NotInStore(request'.args.id) )
       => /\ response' = Err(request'.tool, "Rule not found")
          /\ UNCHANGED <<rules, categories, rulesFile, categoriesFile>>]_vars

\* C17 witness: an update_rule for an id that a store of two rules does not
\* hold was answered "Rule not found"
C17_Witness ==
    /\ request.tool = "update_rule"
    /\ response = Err("update_rule", "Rule not found")
    /\ Len(rules) >= 2
    /\ NotInStore(request.args.id)

\* The position of the rule update_rule changes: the first with the id
UpdatedIndex == CHOOSE k \in 1..Len(rules) :
    /\ rules[k].id = request'.args.id
    /\ \A j \in 1..(k - 1) : rules[j].id # request'.args.id

\* C18: update_rule on an existing id keeps the rule's id and its position in
\* the store, sets each supplied field to the supplied value, refreshes the
\* timestamp (to the clock's reading at the call), leaves every unsupplied
\* field of that rule unchanged, and leaves all other rules unchanged.
C18_UpdateMergesInPlace ==
    [][( /\ request'.tool = "update_rule"
         /\ ~NotInStore(request'.args.id) )
       => LET k == UpdatedIndex
              supplied == DOMAIN request'.args \ {"id"}
          IN  /\ Len(rules') = Len(rules)
              /\ \A j \in 1..Len(rules) : j # k => rules'[j] = rules[j]
              /\ rules'[k].id = rules[k].id
              /\ DOMAIN rules'[k] = DOMAIN rules[k] \cup supplied
              /\ \A f \in supplied : rules'[k][f] = request'.args[f]
              /\ rules'[k].timestamp = now'
              /\ now' >= now
              /\ \A f \in DOMAIN rules[k] \ (supplied \cup {"timestamp"}) :
                    rules'[k][f] = rules[k][f]]_vars

\* C18 witness: an update_rule that supplied a category changed the second
\* rule of the store, at a later clock reading than the rule's creation
C18_Witness ==
    /\ request.tool = "update_rule"
    /\ response.kind = "ok"
    /\ Has(request.args, "category")
    /\ Len(rules) >= 2
    /\ rules[1].id # request.args.id
    /\ rules[2].id = request.args.id
    /\ rules[2].category = request.args.category
    /\ rules[2].timestamp = 1
    /\ rules[1].timestamp = 0

\* The positions of the rules of the store that satisfy P, and the i-th of them
PositionsWhere(P(_)) == {i \in 1..Len(rules) : P(rules[i])}
NthOf(positions, n) ==
    CHOOSE i \in positions : Cardinality({j \in positions : j <= i}) = n

\* The listed rules are those at these positions, in store order
ListsExactly(listed, positions) ==
    /\ Len(listed) = Cardinality(positions)
    /\ \A n \in 1..Len(listed) : listed[n] = rules[NthOf(positions, n)]

IsListing == request.tool = "get_rules_by_category" /\ response.kind = "ok"

\* C19: get_rules_by_category(c) returns exactly the rules whose category is c,
\* in creation order, for any store, also one that holds rules of other
\* categories.  (getRulesByCategory keeps every rule whose category contains c,
\* letter case ignored: asked for "git" it also lists the rules of "Git".)
C19_ListsRulesOfThatCategory ==
    IsListing =>
        ListsExactly(response.payload,
                     PositionsWhere(LAMBDA r : r.category = request.args.category))

\* The last export wrote the whole store as JSON: format json (the default)
\* and no category or project filter
ExportedWholeStoreAsJSON ==
    /\ exportedFrom.exists
    /\ formatOf(exportedFrom.args) = "json"
    /\ ~Truthy(exportedFrom.args, "category")
    /\ ~Truthy(exportedFrom.args, "project")

\* The step imports the export file as JSON into a store that holds no record
ImportsIntoEmptyStore ==
    /\ rules = <<>>
    /\ memories = <<>>
    /\ \/ /\ request'.tool = "import_rules"
          /\ request'.args.filePath = exportFile
          /\ formatOf(request'.args) = "json"
       \/ /\ request'.tool = "import_memories"
          /\ request'.args.file = exportFile
          /\ request'.args.format = "json"

\* C20: exporting the records of a store as JSON and importing that export into
\* an empty store yields a store that holds every original record, with its id
\* and all its field values unchanged, in the same order (rules and memories).
C20_ExportImportRoundTrip ==
    [][ExportedWholeStoreAsJSON /\ ImportsIntoEmptyStore
            => IF server = "rules"
               THEN rules' = exportedFrom.store /\ memories' = <<>>
               ELSE memories' = exportedFrom.store /\ rules' = <<>>]_vars

\* C20 witness: the rules server, started empty, has just imported the JSON
\* export of a store of two or more rules and holds those rules again
C20_Witness ==
    /\ ExportedWholeStoreAsJSON
    /\ request.tool = "import_rules"
    /\ response.kind = "ok"
    /\ response.payload = Len(rules)
    /\ Len(rules) >= 2
    /\ rules = exportedFrom.store
    /\ \E i, j \in 1..Len(rules) : rules[i].id # rules[j].id

\* The batch an import step reads, and the store it appends to
ImportedBatch ==
    IF request'.tool = "import_rules" THEN JSONparse(request'.args.filePath.data)
    ELSE JSONparse(request'.args.file.data)
StoreOf(rs, ms) == IF server = "rules" THEN rs ELSE ms

ImportSucceeds ==
    /\ request'.tool \in {"import_rules", "import_memories"}
    /\ response'.kind = "ok"

\* C21: after the import of a batch every imported record has an id and a
\* timestamp, a record that carried one keeps it (and its other fields), the
\* reported count is the batch length, and the store is the store before the
\* import followed by the batch's records in order.
C21_ImportBackfillsAndAppends ==
    [][ImportSucceeds =>
        LET batch == ImportedBatch
            old == StoreOf(rules, memories)
            new == StoreOf(rules', memories')
        IN  /\ response'.payload = Len(batch)
            /\ Len(new) = Len(old) + Len(batch)
            /\ SubSeq(new, 1, Len(old)) = old
            /\ \A i \in 1..Len(batch) :
                LET r == new[Len(old) + i]
                IN  /\ Has(r, "id") /\ r.id # <<>>
                    /\ Has(r, "timestamp")
                    /\ DOMAIN r = DOMAIN batch[i] \cup {"id", "timestamp"}
                    /\ \A f \in DOMAIN batch[i] :
                        (f # "id" \/ Truthy(batch[i], "id")) => r[f] = batch[i][f]]_vars

\* C21 witness: the memory server has imported a batch of two entries, the
\* first without id and timestamp, which were generated, and the second with
\* both, which it kept
C21_Witness ==
    /\ request.tool = "import_memories"
    /\ response.kind = "ok"
    /\ response.payload = 2
    /\ Len(memories) = 2
    /\ now = 0
    /\ memories[1].id = generateMemId(0, <<"z">>)
    /\ memories[1].timestamp = 0
    /\ memories[2].id = <<"m", "2">>
    /\ memories[2].timestamp = 1

\* How many times the entry occurs in the store
Occurrences(ms, entry) == Cardinality({i \in 1..Len(ms) : ms[i] = entry})

\* C22: memories are append-only: no call of a memory tool removes a stored
\* entry or changes a field of one; every entry of the store before the call
\* is in the store after it, as often as before.
C22_MemoriesAppendOnly ==
    [][\A entry \in Elems(memories) :
            Occurrences(memories', entry) >= Occurrences(memories, entry)]_vars

\* C22 witness: the store holds the two different entries that were pushed and
\* the statistics, which sort the store in place, have just been read
C22_Witness ==
    /\ server = "memory"
    /\ request.tool = "get_memory_stats"
    /\ Len(memories) = 2
    /\ Len(inserted) = 2
    /\ Elems(memories) = Elems(inserted)
    /\ memories[1] # memories[2]

\* The load is over; a file the server was started on was not JSON
LoadDone == loading.pc = "done"
FoundMalformed ==
    IF server = "rules"
    THEN Malformed \in {loading.disk.rulesFile, loading.disk.categoriesFile}
    ELSE loading.disk.memoriesFile = Malformed

\* load() lets no error escape, and a malformed file leaves the store empty
\* (rules: the rules and the category index, also when one file is malformed)
LoadContainsErrors ==
    /\ loading.pc # "rejected"
    /\ LoadDone /\ FoundMalformed
        => rules = <<>> /\ categories = <<>> /\ memories = <<>>

\* C23 as stated: load() never propagates an error; when a backing file is
\* missing the store starts empty, and when a backing file has malformed
\* content the store is reset to empty.
C23_LoadMissingFileStartsEmpty ==
    /\ LoadContainsErrors
    /\ LoadDone /\ server = "rules" /\ loading.disk.rulesFile = NoFile => rules = <<>>
    /\ LoadDone /\ server = "memory" /\ loading.disk.memoriesFile = NoFile
        => memories = <<>>

\* C23 corrected: load() never propagates an error; when a backing file is
\* missing in a storage directory that exists the store starts empty (the rules
\* server started without its directory seeds the default rules), and when a
\* backing file has malformed content the store is reset to empty.
C23_LoadMissingFileInDirectoryStartsEmpty ==
    /\ LoadContainsErrors
    /\ LoadDone /\ server = "rules" /\ loading.disk.dir /\ loading.disk.rulesFile = NoFile
        => rules = <<>>
    /\ LoadDone /\ server = "memory" /\ loading.disk.memoriesFile = NoFile
        => memories = <<>>

\* C23 witness: the rules server was started on a rules.json that holds rules
\* and a categories.json that is not JSON; the rules were read and the load
\* has ended with the rules and the category index empty
C23_Witness ==
    /\ server = "rules"
    /\ LoadDone
    /\ loading.disk.rulesFile = FileOf(defaultRules(0))
    /\ loading.disk.categoriesFile = Malformed
    /\ loading.text = Malformed
    /\ rules = <<>>
    /\ categories = <<>>

\* The number a string of decimal digits denotes
RECURSIVE DecimalValue(_)
DecimalValue(digits) ==
    IF digits = <<>> THEN 0
    ELSE 10 * DecimalValue(SubSeq(digits, 1, Len(digits) - 1))
         + (CHOOSE d \in 0..9 : DigitChar(d) = digits[Len(digits)])

\* C24: the id minted by create_rule for category c is the first three
\* characters of c in lower case, a hyphen, and (the number of rules in the
\* store whose category equals c) + 1, zero-padded to three digits.
C24_MintedIdIsPrefixAndCount ==
    [][request'.tool = "create_rule" /\ Len(rules') = Len(rules) + 1 =>
        LET c == request'.args.category
            id == rules'[Len(rules')].id
            k == IF Len(c) < 3 THEN Len(c) ELSE 3
            count == Cardinality({i \in 1..Len(rules) : rules[i].category = c}) + 1
        IN  /\ Len(id) = k + 4
            /\ \A j \in 1..k : id[j] = LowerChar(c[j])
            /\ id[k + 1] = "-"
            /\ \A j \in (k + 2)..(k + 4) : \E d \in 0..9 : DigitChar(d) = id[j]
            /\ DecimalValue(SubSeq(id, k + 2, k + 4)) = count
            /\ response'.kind = "ok" => response'.payload = id]_vars

\* C24 witness: the second rule of the category "Go" has been created and given
\* the id go-002
C24_Witness ==
    /\ request.tool = "create_rule"
    /\ response.kind = "ok"
    /\ request.args.category = S_Go
    /\ response.payload = <<"g", "o", "-", "0", "0", "2">>
    /\ Len(rules) >= 2
    /\ rules[Len(rules)].id = response.payload

\* C25: after any sequence of create_rule, update_rule, delete_rule,
\* import_rules and create_category calls from the seeded or the empty store,
\* the member list of every category holds, without duplicates, exactly the ids
\* of the rules in the store whose category is that category's name.
C25_MemberListsMatchRules ==
    \A k \in 1..Len(categories) :
        /\ Distinct(categories[k].rules)
        /\ Elems(categories[k].rules)
            = {rules[i].id : i \in {j \in 1..Len(rules) :
                                        rules[j].category = categories[k].name}}

\* The record the last request created is in the store
CreatedRuleStored ==
    \E i \in 1..Len(rules) :
        /\ rules[i].id = response.payload
        /\ rules[i].category = request.args.category
        /\ \A f \in DOMAIN request.args \cap {"title", "content"} :
                rules[i][f] = request.args[f]
CreatedMemoryStored ==
    \E i \in 1..Len(memories) :
        /\ memories[i].id = response.payload
        /\ \A f \in DOMAIN request.args \cap {"project", "category", "title", "content"} :
                memories[i][f] = request.args[f]

\* C26: once create_rule or store_experience has returned success, the created
\* record stays in the in-memory store until an explicit delete removes it: as
\* long as that create is the last request served, the record is in the store,
\* whatever the initial load, started by the constructor and not awaited, did
\* in the meantime.
C26_CreatedRecordStays ==
    /\ request.tool = "create_rule" /\ response.kind = "ok" => CreatedRuleStored
    /\ request.tool = "store_experience" /\ response.kind = "ok" => CreatedMemoryStored

\* The last three characters of an id, read as a number
SerialOf(id) == DecimalValue(SubSeq(id, Len(id) - 2, Len(id)))

\* C27: when create_rule requests overlap, each mints its id, appends its rule
\* and updates the category index as one uninterrupted step: the store holds
\* every created rule, in the order of the calls, each with an id numbered by
\* the rules of its category that were in the store before it, and in the
\* index; only rules.json can be left behind, holding an earlier snapshot of
\* the store (the last save to finish wins).
C27_OverlappingCreatesKeepBoth ==
    LET first == Len(rules) - Len(issued)
    IN  /\ first >= 0
        /\ \A k \in 1..Len(issued) :
            LET p == first + k
            IN  /\ rules[p].id = issued[k].id
                /\ rules[p].category = issued[k].category
                /\ SerialOf(rules[p].id)
                    = Cardinality({q \in 1..(p - 1) :
                                        rules[q].category = rules[p].category}) + 1
                /\ \E c \in 1..Len(categories) :
                    /\ categories[c].name = rules[p].category
                    /\ rules[p].id \in Elems(categories[c].rules)
        /\ rulesFile.exists
            => \E m \in 0..Len(rules) : rulesFile.data = SubSeq(rules, 1, m)

\* C27 witness: two create_rule calls for the same category overlapped and
\* have both answered; the store holds both rules under different ids,
\* categories.json holds the index with both ids, and rules.json holds the
\* snapshot of the first call, without the second rule
C27_Witness ==
    /\ saving = <<>>
    /\ response.kind = "ok"
    /\ Len(issued) = 2
    /\ issued[1].category = issued[2].category
    /\ issued[1].id # issued[2].id
    /\ rules[Len(rules)].id = issued[2].id
    /\ rulesFile = FileOf(SubSeq(rules, 1, Len(rules) - 1))
    /\ categoriesFile = FileOf(categories)

\* C28: the ids that import_rules backfills for the records of one batch that
\* lack an id are pairwise distinct and differ from every id already in the
\* store.
C28_BackfilledIdsDistinct ==
    [][request'.tool = "import_rules" /\ Len(rules') > Len(rules) =>
        LET batch == JSONparse(request'.args.filePath.data)
            minted == {i \in 1..Len(batch) : ~Truthy(batch[i], "id")}
            idOf(i) == rules'[Len(rules) + i].id
        IN  /\ \A i, j \in minted : i # j => idOf(i) # idOf(j)
            /\ \A i \in minted : \A q \in 1..Len(rules) : rules[q].id # idOf(i)]_vars

\* The step is a call of the tool: the handlers leave the timer callback's
\* position alone, and every step of the callback changes it
RunnerCall(tool) == request'.tool = tool /\ runner'.tick = runner.tick

\* C29: in the git runner, after any sequence of start_git_runner and
\* stop_git_runner calls, at most one auto-commit timer exists, and one exists
\* only while isRunning and autoCommit are both true; start_git_runner while
\* running leaves autoCommit, commitInterval and the timer unchanged, and
\* stop_git_runner while not running changes nothing.
C29_AtMostOneTimerWhileRunning ==
    [][/\ Cardinality(runner'.timers) <= 1
       /\ runner'.timers # {} => runner'.isRunning /\ runner'.autoCommit
       /\ runner'.timers # {} => runner'.timers = {runner'.intervalId}
       /\ RunnerCall("start_git_runner") /\ runner.isRunning
            => /\ runner'.autoCommit = runner.autoCommit
               /\ runner'.commitInterval = runner.commitInterval
               /\ runner'.timers = runner.timers
               /\ runner'.intervalId = runner.intervalId
       /\ RunnerCall("stop_git_runner") /\ ~runner.isRunning => runner' = runner]_vars

\* C29 witness: the runner was started with autoCommit and an interval of 5,
\* and start_git_runner has been called again, without arguments: one timer,
\* the interval still 5
C29_Witness ==
    /\ server = "git"
    /\ request.tool = "start_git_runner"
    /\ request.args = NoArgs
    /\ runner.isRunning
    /\ runner.autoCommit
    /\ runner.commitInterval = 5
    /\ runner.timers = {1}
    /\ runner.intervalId = 1

\* C30: once stop_git_runner has returned success, the auto-commit task makes
\* no further commit and does not change lastCommit until the runner is started
\* again, also when a timer tick was in progress at the time of the stop.
C30_NoAutoCommitAfterStop ==
    [][~runner.isRunning /\ runner'.tick # runner.tick
            => /\ runner'.lastCommit = runner.lastCommit
               /\ runner'.autoCommits = runner.autoCommits]_vars

====
